---- MODULE Spec2Model ----
(***************************************************************************)
(* Sport Performance Protocol, multi-chain settlement core.                *)
(*                                                                         *)
(* The module models the two ledger implementations of the repository      *)
(* side by side:                                                           *)
(*   - the Solidity contracts PerformanceOracle and DeflatinaryBurn,       *)
(*   - the Move modules performance_oracle, deflatinary_burn,              *)
(*     reward_tiers and spp_token,                                         *)
(* and the validator SDKs that drive them.  A behaviour runs against one   *)
(* ledger, chosen by Init (variable ledger); the Solidity actions are      *)
(* prefixed Sol, the Move actions Move.  Every transaction either applies  *)
(* all of its writes or, on revert / abort, none of them.                  *)
(***************************************************************************)
EXTENDS Integers, Sequences, FiniteSets, TLC

(***************************************************************************)
(* Bounds of the model.                                                    *)
(***************************************************************************)
MaxTime == 2
MaxHistory == 2
MaxOracles == 1
MaxTokens == 5
MaxEntries == 2
MaxFailureCount == 3
MaxClock == 3

(***************************************************************************)
(* Input sets.                                                             *)
(***************************************************************************)
Ledgers == {"sol", "move"}
MatchIds == {"m1"}
Players == {"player1"}
Accounts == {"owner", "oracle", "player1"}
DataHashes == {"h1", "h2"}
PlayerCounts == {11}
Winners == {1, 2}
Sports == {0}

\* recordPerformance arguments of PerformanceOracle.sol:
\* <<runsScored, wicketsTaken, ballsFaced, ballsBowled, tier, effortScore>>
SolPerfInputs ==
    { <<75, 2, 50, 24, 0, 85>>, <<100, 3, 0, 30, 1, 90>>,
      <<75, 2, 50, 24, 8, 85>>, <<75, 2, 50, 24, 0, 101>> }

\* record_performance arguments of performance_oracle.move:
\* <<performance_score, effort_score, reward_tier>>
MovePerfInputs == { <<150, 85, 0>>, <<230, 90, 1>> }

\* record_cricket_performance arguments:
\* <<runs, balls_faced, wickets, overs_bowled, runs_conceded, maiden_overs>>
MoveCricketInputs == { <<100, 60, 0, 0, 0, 0>> }

\* burn engine inputs
BurnMatchIds == {"m1", "m2"}
BurnPlayers == {"owner", "player1"}
\* the (matchId, participant) keys burns are requested for
BurnKeys == { <<"m1", "owner">>, <<"m2", "owner">>, <<"m1", "player1">> }
BurnTiers == {0, 8}
BurnEfforts == {85, 101}
PerformanceScores == {150}
OracleContracts == {"oracle"}
EngineCallers == {"owner", "oracle"}
\* updateTier / update_tier arguments: the tier, <<baseReward, multiplier at scale 10>>
UpdatedTiers == {0, 8}
TierUpdates == { <<7, 15>> }

(***************************************************************************)
(* State.                                                                  *)
(***************************************************************************)
VARIABLES
    ledger,                    \* which ledger implementation this run uses
    now,                       \* block.timestamp / timestamp::now_seconds()
    outcome,                   \* the last transaction: operation, caller, match, player, error
    \* PerformanceOracle.sol
    matches,
    performances,
    playerMatchHistory,
    totalMatches,
    authorizedOracles,
    OracleAuthorized,          \* the OracleAuthorized(oracle, authorized) events emitted so far
    \* performance_oracle.move (OracleState)
    oracle_addresses,
    match_store,
    performance_store,
    cricket_performance_store,
    \* DeflatinaryBurn.sol
    oracleContract,
    burnMultipliers,
    baseRewards,
    totalBurnedAmount,
    totalRewardsDistributed,
    playerTotalRewards,
    playerTotalBurned,
    burnTransactions,
    \* RewardTiers.sol
    tiers,
    \* SPPToken.sol (ERC20 balances and the allowances given to the burn engine)
    erc20_balances,
    erc20_allowances,
    erc20_totalSupply,
    tokenTotalBurned,          \* SPPToken._totalBurned
    burnContract,
    \* reward_tiers.move (TiersState)
    tiers_state,
    \* deflatinary_burn.move (BurnEngineState)
    burn_records,
    total_burned,
    total_rewards,
    player_rewards,
    player_burned,
    \* spp_token.move (primary stores and TokenStats)
    primary_store,
    token_stats,
    \* the token's history: the sums of the amounts of the successful mint calls
    \* and of the successful burn / burnFrom calls since deployment
    mintedAmount,
    burnedAmount,
    \* a calculateReward / calculate_reward call and what each ledger returned
    calcTier,
    calcEffort,
    solReward,
    moveReward,
    \* validator SDK: its signing account and its executeBurn requests
    wallet,
    requests,
    \* ChainRegistryService: the chains map (in insertion order, each chain type
    \* with a reference to its entry object), the entry objects ever created,
    \* the configuration, the checkChainHealth calls waiting for
    \* adapter.healthCheck(), and the events the last step emitted
    chains,
    entries,
    nextEntry,
    config,
    probes,
    emitted,
    \* checkAllChainsHealth: for each call slot, 0 when it runs no monitoring
    \* round, else the place in the chains map of the next chain its round probes
    rounds,
    \* the handle of the health-monitoring timer (0 for null) and the interval
    \* timers that are set and not cleared
    healthCheckInterval,
    timers,
    \* a chain adapter (BaseChainAdapter): its initialized flag, the call of
    \* waitForConfirmation in progress and the wall clock it reads, in units
    \* of its 2000 ms sleep; and the receipts of the adapter's chain
    initialized,
    receipts,
    wait,
    clock

commonVars == <<ledger, now, outcome>>
solOracleVars ==
    <<matches, performances, playerMatchHistory, totalMatches, authorizedOracles,
      OracleAuthorized>>
moveOracleVars ==
    <<oracle_addresses, match_store, performance_store, cricket_performance_store>>
solBurnVars ==
    <<oracleContract, burnMultipliers, baseRewards, totalBurnedAmount,
      totalRewardsDistributed, playerTotalRewards, playerTotalBurned,
      burnTransactions>>
rewardTiersVars == <<tiers>>
solTokenVars ==
    <<erc20_balances, erc20_allowances, erc20_totalSupply, tokenTotalBurned,
      burnContract>>
tokenHistoryVars == <<mintedAmount, burnedAmount>>
moveBurnVars ==
    <<tiers_state, burn_records, total_burned, total_rewards, player_rewards,
      player_burned>>
moveTokenVars == <<primary_store, token_stats>>
calcVars == <<calcTier, calcEffort, solReward, moveReward>>
sdkVars == <<wallet, requests>>
oracleVars == <<solOracleVars, moveOracleVars>>
engineVars ==
    <<solBurnVars, rewardTiersVars, solTokenVars, moveBurnVars, moveTokenVars,
      tokenHistoryVars>>
timerVars == <<healthCheckInterval, timers>>
registryVars == <<chains, entries, nextEntry, config, probes, emitted, rounds, timerVars>>
adapterVars == <<initialized, receipts, wait, clock>>
vars == <<commonVars, oracleVars, engineVars, calcVars, sdkVars, registryVars, adapterVars>>

\* Move match status codes
STATUS_REGISTERED == 0
STATUS_FINALIZED == 2

\* Ownable.owner() of the Solidity contracts and OracleState.admin
Owner == "owner"

\* The timestamps the next block can carry: time does not run backwards.
BlockTimes == { t \in {now, now + 1} : t <= MaxTime }

Outcome(op, caller, m, player, err) ==
    [op |-> op, caller |-> caller, id |-> m, player |-> player, err |-> err,
     args |-> <<>>]

\* the outcome of a tier transaction of contract (or module) c: args are the
\* arguments it was called with
TierOutcome(op, caller, c, err, args) ==
    [Outcome(op, caller, c, "-", err) EXCEPT !.args = args]

(***************************************************************************)
(* ChainRegistryService.  An entry object is created by registerChain and  *)
(* lives on after unregisterChain or a re-registration for as long as a    *)
(* checkChainHealth call holds a reference to it, so entries are kept by   *)
(* identity: chains[i].entry is the object the map holds for the chain     *)
(* type.  checkChainHealth runs in two steps, before and after its         *)
(* await entry.adapter.healthCheck().                                      *)
(***************************************************************************)
ChainTypes == {"arbitrum", "opbnb", "aptos"}
ProbeIds == {1, 2}

DefaultMaxFailures == 3

NoProbe == [pc |-> "idle", chainType |-> "-", entry |-> 0]

TxHashes == {"0xa", "0xb"}

NoWait == [pc |-> "idle", txHash |-> "-", startTime |-> 0, timeoutMs |-> 0]

AdapterInit ==
    /\ initialized = FALSE
    /\ receipts = [txHash \in TxHashes |-> "none"]
    /\ wait = NoWait
    /\ clock = 0

DefaultHealthCheckInterval == 60000

\* private config: RegistryConfig = { ... }
DefaultConfig ==
    [healthCheckInterval |-> DefaultHealthCheckInterval, maxFailures |-> DefaultMaxFailures,
     enableFailover |-> TRUE, primaryChain |-> "arbitrum"]

\* the handles setInterval can return
TimerIds == {1, 2}

RegistryInit ==
    /\ chains = << >>
    /\ entries = << >>
    /\ nextEntry = 1
    /\ config = DefaultConfig
    /\ probes = [p \in ProbeIds |-> NoProbe]
    /\ emitted = << >>
    /\ rounds = [p \in ProbeIds |-> 0]
    /\ healthCheckInterval = 0
    /\ timers = {}

RegistryUnchanged ==
    UNCHANGED <<ledger, oracleVars, engineVars, calcVars, sdkVars, adapterVars>>

\* the outcome of a registry operation on chainType: what it returned or threw,
\* and the entry object it worked on (registerChain adds its config argument)
RegistryOutcome(op, chainType, result, entry) ==
    [Outcome(op, "-", chainType, "-", result) EXCEPT !.args = <<entry>>]

\* this.chains.has(chainType)
has(chainType) == \E i \in 1 .. Len(chains) : chains[i].chainType = chainType

\* this.chains.get(chainType): the entry object, 0 for undefined
get(chainType) ==
    IF has(chainType)
    THEN chains[CHOOSE i \in 1 .. Len(chains) : chains[i].chainType = chainType].entry
    ELSE 0

\* this.chains.set(chainType, entry): an existing key keeps its place
set(chainType, entry) ==
    IF has(chainType)
    THEN [i \in 1 .. Len(chains) |->
            IF chains[i].chainType = chainType
            THEN [chainType |-> chainType, entry |-> entry] ELSE chains[i]]
    ELSE Append(chains, [chainType |-> chainType, entry |-> entry])

\* a clearInterval that leaves the timer running
clearInterval_Leak(handle, running) == running

\* clearInterval(handle): the timers set after it
clearInterval(handle, running) == running \ {handle}

\* startHealthMonitoring(), running being the timers set when it is called:
\* the timer of the stored handle is cleared and a new one is set, whose
\* handle is stored
startHealthMonitoring(running) ==
    LET remaining == IF healthCheckInterval # 0
                     THEN clearInterval(healthCheckInterval, running) ELSE running
        free == TimerIds \ remaining
        handle == CHOOSE i \in free : \A j \in free : i <= j
    IN
    /\ free # {}
    /\ timers' = remaining \cup {handle}
    /\ healthCheckInterval' = handle

\* configure(c), c a partial configuration: { ...this.config, ...c }
Configure(c) ==
    /\ config' = [f \in DOMAIN config |-> IF f \in DOMAIN c THEN c[f] ELSE config[f]]
    /\ outcome' = RegistryOutcome("configure", "-", "ok", 0)
    /\ emitted' = << >>
    /\ IF healthCheckInterval # 0
       THEN startHealthMonitoring(clearInterval(healthCheckInterval, timers))
       ELSE UNCHANGED timerVars
    /\ UNCHANGED <<now, chains, entries, nextEntry, probes, rounds>>
    /\ RegistryUnchanged

\* onModuleInit()
OnModuleInit ==
    /\ IF config.healthCheckInterval > 0
       THEN startHealthMonitoring(timers)
       ELSE UNCHANGED timerVars
    /\ outcome' = RegistryOutcome("onModuleInit", "-", "ok", 0)
    /\ emitted' = << >>
    /\ UNCHANGED <<now, chains, entries, nextEntry, config, probes, rounds>>
    /\ RegistryUnchanged

\* stopHealthMonitoring(), called as op (onModuleDestroy calls it and does
\* nothing else)
StopHealthMonitoring(op) ==
    /\ IF healthCheckInterval # 0
       THEN /\ timers' = clearInterval(healthCheckInterval, timers)
            /\ healthCheckInterval' = 0
       ELSE UNCHANGED timerVars
    /\ outcome' = RegistryOutcome(op, "-", "ok", 0)
    /\ emitted' = << >>
    /\ UNCHANGED <<now, chains, entries, nextEntry, config, probes, rounds>>
    /\ RegistryUnchanged

OnModuleDestroy == StopHealthMonitoring("onModuleDestroy")

\* a ChainConfig is the set of its fields that are present
ConfigFields ==
    {"rpcUrl", "contractAddresses", "token", "oracle", "burnEngine", "rewardTiers"}

\* a validation that asks for the endpoint and the token address only
validateConfig_TokenOnly(chainConfig) ==
    IF "rpcUrl" \notin chainConfig THEN "RPC URL is required"
    ELSE IF "contractAddresses" \notin chainConfig
         THEN "Contract addresses are required"
         ELSE IF "token" \notin chainConfig
              THEN "All contract addresses must be provided"
              ELSE "ok"

\* validateConfig(config): "ok" or the message of the error thrown
validateConfig(chainConfig) ==
    IF "rpcUrl" \notin chainConfig THEN "RPC URL is required"
    ELSE IF "contractAddresses" \notin chainConfig
         THEN "Contract addresses are required"
         ELSE IF {"token", "oracle", "burnEngine", "rewardTiers"} \subseteq chainConfig
              THEN "ok"
              ELSE "All contract addresses must be provided"

\* registerChain(chainType, config): adapter.initialize(config) of the new
\* adapter returns or throws, and its error is thrown on
RegisterChain(chainType, chainConfig) ==
    /\ validateConfig(chainConfig) = "ok" => nextEntry <= MaxEntries
    /\ IF validateConfig(chainConfig) = "ok"
       THEN /\ entries' = entries @@
                 (nextEntry :> [chainType |-> chainType, isHealthy |-> TRUE,
                                lastHealthCheck |-> now, failureCount |-> 0,
                                lastError |-> "-"])
            /\ nextEntry' = nextEntry + 1
            /\ chains' = set(chainType, nextEntry)
            /\ outcome' = [RegistryOutcome("registerChain", chainType, "ok", nextEntry)
                              EXCEPT !.args = <<nextEntry, chainConfig>>]
            /\ emitted' = << <<"chain.registered", chainType>> >>
       ELSE /\ outcome' = [RegistryOutcome("registerChain", chainType,
                                           validateConfig(chainConfig), 0)
                              EXCEPT !.args = <<0, chainConfig>>]
            /\ emitted' = << >>
            /\ UNCHANGED <<entries, nextEntry, chains>>
    /\ UNCHANGED <<now, config, probes, rounds, timerVars>>
    /\ RegistryUnchanged

\* unregisterChain(chainType)
UnregisterChain(chainType) ==
    /\ IF ~has(chainType)
       THEN /\ outcome' = RegistryOutcome("unregisterChain", chainType, "not registered", 0)
            /\ emitted' = << >>
            /\ UNCHANGED chains
       ELSE /\ outcome' = RegistryOutcome("unregisterChain", chainType, "ok", get(chainType))
            /\ chains' = SelectSeq(chains, LAMBDA c : c.chainType # chainType)
            /\ emitted' = << <<"chain.unregistered", chainType>> >>
    /\ UNCHANGED <<now, entries, nextEntry, config, probes, rounds, timerVars>>
    /\ RegistryUnchanged

\* checkChainHealth(chainType) up to its await: the entry is looked up, and
\* the call throws when there is none; the caller's place in a monitoring
\* round is the caller's to keep
CheckChainHealthStart(p, chainType) ==
    /\ probes[p].pc = "idle"
    /\ IF ~has(chainType)
       THEN /\ outcome' = RegistryOutcome("checkChainHealth", chainType,
                                          "not registered", 0)
            /\ emitted' = << >>
            /\ UNCHANGED probes
       ELSE /\ probes' = [probes EXCEPT ![p] =
                 [pc |-> "await", chainType |-> chainType, entry |-> get(chainType)]]
            /\ emitted' = << >>
            /\ UNCHANGED outcome
    /\ UNCHANGED <<now, chains, entries, nextEntry, config, timerVars>>
    /\ RegistryUnchanged

\* this.config.maxFailures || 3
maxFailuresInForce ==
    IF config.maxFailures = 0 THEN 3 ELSE config.maxFailures

\* a threshold check that lets one failure more pass
reachedMaxFailures_Above(failureCount) == failureCount > maxFailuresInForce

\* entry.status.failureCount >= (this.config.maxFailures || 3)
reachedMaxFailures(failureCount) == failureCount >= maxFailuresInForce

\* checkChainHealth after its await: isHealthy is what adapter.healthCheck()
\* returned, "throw" when it threw
CheckChainHealthComplete(p, isHealthy) ==
    LET e == probes[p].entry
        chainType == probes[p].chainType
        status == entries[e]
        failureCount == status.failureCount + 1
        marked == reachedMaxFailures(failureCount)
    IN
    /\ probes[p].pc = "await"
    /\ isHealthy # "true" => status.failureCount < MaxFailureCount
    /\ entries' = [entries EXCEPT ![e] =
         IF isHealthy = "true"
         THEN [status EXCEPT !.lastHealthCheck = now, !.failureCount = 0,
                             !.isHealthy = TRUE, !.lastError = "-"]
         ELSE [status EXCEPT
                 !.lastHealthCheck = now,
                 !.failureCount = failureCount,
                 !.lastError = IF isHealthy = "throw" THEN "error" ELSE @,
                 !.isHealthy = IF marked THEN FALSE ELSE @]]
    /\ emitted' =
         IF isHealthy = "true"
         THEN IF status.failureCount > 0
              THEN << <<"chain.recovered", chainType>> >> ELSE << >>
         ELSE IF marked /\ status.isHealthy
              THEN << <<"chain.unhealthy", chainType>> >> ELSE << >>
    /\ outcome' = RegistryOutcome("checkChainHealth", chainType,
                                  IF isHealthy = "true" THEN "true" ELSE "false", e)
    /\ probes' = [probes EXCEPT ![p] = NoProbe]
    /\ UNCHANGED <<now, chains, nextEntry, config, rounds, timerVars>>
    /\ RegistryUnchanged

\* the entries of this.chains.values(), in the map's order, that are healthy
HealthyEntries ==
    SelectSeq([i \in 1 .. Len(chains) |-> chains[i].entry],
              LAMBDA e : entries[e].isHealthy)

\* a failover that takes the first healthy chain without looking at the
\* primary chain
getHealthyAdapter_NoPrimary ==
    IF HealthyEntries # << >>
    THEN <<"ok", Head(HealthyEntries)>>
    ELSE <<"No healthy chains available", 0>>

\* getHealthyAdapter(): the adapter returned (each entry owns its adapter, so
\* it is named by its entry) or the error thrown
getHealthyAdapter ==
    IF /\ config.primaryChain # "-"
       /\ has(config.primaryChain)
       /\ entries[get(config.primaryChain)].isHealthy
    THEN <<"ok", get(config.primaryChain)>>
    ELSE IF HealthyEntries # << >>
         THEN <<"ok", Head(HealthyEntries)>>
         ELSE <<"No healthy chains available", 0>>

\* a lookup that hands out the requested chain's adapter whatever its health
getAdapter_NoFailover(chainType) ==
    IF ~has(chainType) THEN <<"not registered", 0>> ELSE <<"ok", get(chainType)>>

\* getAdapter(chainType): the adapter returned or the error thrown
getAdapter(chainType) ==
    IF ~has(chainType)
    THEN <<"not registered", 0>>
    ELSE IF ~entries[get(chainType)].isHealthy /\ config.enableFailover
         THEN getHealthyAdapter
         ELSE <<"ok", get(chainType)>>

\* a call of getAdapter(chainType)
GetAdapter(chainType) ==
    /\ outcome' = RegistryOutcome("getAdapter", chainType, getAdapter(chainType)[1],
                                  getAdapter(chainType)[2])
    /\ emitted' = << >>
    /\ UNCHANGED <<now, chains, entries, nextEntry, config, probes, rounds, timerVars>>
    /\ RegistryUnchanged

\* the setInterval callback of startHealthMonitoring fires and calls
\* checkAllChainsHealth, which takes an iterator over this.chains.keys()
RoundStart(p) ==
    /\ timers # {}
    /\ rounds[p] = 0 /\ probes[p].pc = "idle"
    /\ rounds' = [rounds EXCEPT ![p] = 1]
    /\ emitted' = << >>
    /\ UNCHANGED <<now, outcome, chains, entries, nextEntry, config, probes, timerVars>>
    /\ RegistryUnchanged

\* checkAllChainsHealth, one turn of its loop up to the await: the previous
\* checkChainHealth call has returned, the next chain type is taken from the
\* iterator and checkChainHealth is called for it
RoundProbe(p) ==
    /\ rounds[p] >= 1 /\ rounds[p] <= Len(chains)
    /\ CheckChainHealthStart(p, chains[rounds[p]].chainType)
    /\ rounds' = [rounds EXCEPT ![p] = @ + 1]

\* checkAllChainsHealth returns once the iterator is exhausted and the last
\* checkChainHealth call has returned
RoundEnd(p) ==
    /\ rounds[p] > Len(chains) /\ probes[p].pc = "idle"
    /\ rounds' = [rounds EXCEPT ![p] = 0]
    /\ outcome' = RegistryOutcome("checkAllChainsHealth", "-", "ok", 0)
    /\ emitted' = << >>
    /\ UNCHANGED <<now, chains, entries, nextEntry, config, probes, timerVars>>
    /\ RegistryUnchanged

(***************************************************************************)
(* BaseChainAdapter.waitForConfirmation over checkTransactionStatus of the *)
(* adapters.  A receipt is "none" until the transaction is mined and then  *)
(* "success" or "reverted" for good.                                       *)
(***************************************************************************)
AdapterUnchanged ==
    UNCHANGED <<ledger, now, oracleVars, engineVars, calcVars, sdkVars, registryVars>>

\* a status check that reports a failed lookup as a failed transaction
checkTransactionStatus_ErrorIsFailed(txHash, rpcOk) ==
    IF ~rpcOk THEN "failed"
    ELSE IF receipts[txHash] = "none" THEN "pending"
    ELSE IF receipts[txHash] = "success" THEN "confirmed" ELSE "failed"

\* checkTransactionStatus(txHash): the status of the result; rpcOk tells
\* whether sdk.getTransactionReceipt returned or threw
checkTransactionStatus(txHash, rpcOk) ==
    IF ~rpcOk THEN "pending"
    ELSE IF receipts[txHash] = "none" THEN "pending"
    ELSE IF receipts[txHash] = "success" THEN "confirmed" ELSE "failed"

\* the TransactionResult waitForConfirmation(txHash, timeoutMs) returns
WaitOutcome(status) ==
    [Outcome("waitForConfirmation", "-", wait.txHash, "-", status)
        EXCEPT !.args = <<wait.timeoutMs>>]

\* waitForConfirmation(txHash, timeoutMs): const startTime = Date.now()
WaitForConfirmation(txHash, timeoutMs) ==
    /\ wait.pc = "idle"
    /\ wait' = [pc |-> "loop", txHash |-> txHash, startTime |-> clock,
                timeoutMs |-> timeoutMs]
    /\ UNCHANGED <<outcome, initialized, receipts, clock>>
    /\ AdapterUnchanged

\* while (Date.now() - startTime < timeoutMs): into the loop body, or out of
\* the loop to return the pending result
WaitLoop ==
    /\ wait.pc = "loop"
    /\ IF clock - wait.startTime < wait.timeoutMs
       THEN /\ wait' = [wait EXCEPT !.pc = "poll"]
            /\ UNCHANGED outcome
       ELSE /\ wait' = NoWait
            /\ outcome' = WaitOutcome("pending")
    /\ UNCHANGED <<initialized, receipts, clock>>
    /\ AdapterUnchanged

\* await this.checkTransactionStatus(txHash) returns: a confirmed or failed
\* result is returned, anything else leads to the sleep
WaitPolled(rpcOk) ==
    LET status == checkTransactionStatus(wait.txHash, rpcOk) IN
    /\ wait.pc = "poll"
    /\ IF status \in {"confirmed", "failed"}
       THEN /\ wait' = NoWait
            /\ outcome' = WaitOutcome(status)
       ELSE /\ wait' = [wait EXCEPT !.pc = "sleep"]
            /\ UNCHANGED outcome
    /\ UNCHANGED <<initialized, receipts, clock>>
    /\ AdapterUnchanged

WaitSleep_NoTimePasses ==
    /\ wait.pc = "sleep"
    /\ wait' = [wait EXCEPT !.pc = "loop"]
    /\ UNCHANGED <<outcome, initialized, receipts, clock>>
    /\ AdapterUnchanged

\* await this.sleep(2000) returns
WaitSleep ==
    /\ wait.pc = "sleep"
    /\ clock < MaxClock
    /\ clock' = clock + 1
    /\ wait' = [wait EXCEPT !.pc = "loop"]
    /\ UNCHANGED <<outcome, initialized, receipts>>
    /\ AdapterUnchanged

\* time passes
Tick ==
    /\ clock < MaxClock
    /\ clock' = clock + 1
    /\ UNCHANGED <<outcome, initialized, receipts, wait>>
    /\ AdapterUnchanged

\* the chain includes the transaction in a block
Mine(txHash, status) ==
    /\ receipts[txHash] = "none"
    /\ receipts' = [receipts EXCEPT ![txHash] = status]
    /\ UNCHANGED <<outcome, initialized, wait, clock>>
    /\ AdapterUnchanged

(***************************************************************************)
(* PerformanceOracle.sol                                                   *)
(***************************************************************************)
ZeroMatch ==
    [registeredAt |-> 0, finalizedAt |-> 0, isFinalized |-> FALSE,
     totalPlayers |-> 0, dataHash |-> "0", organizer |-> "0"]

ZeroPerformance ==
    [runsScored |-> 0, wicketsTaken |-> 0, ballsFaced |-> 0, ballsBowled |-> 0,
     strikeRate |-> 0, tier |-> 0, effortScore |-> 0, verified |-> FALSE]

SolOracleInit ==
    /\ matches = [m \in MatchIds |-> ZeroMatch]
    /\ performances = [k \in MatchIds \X Players |-> ZeroPerformance]
    /\ playerMatchHistory = [p \in Players |-> <<>>]
    /\ totalMatches = 0
    /\ authorizedOracles = {Owner}
    /\ OracleAuthorized = {}

\* modifier onlyAuthorized
onlyAuthorized(caller) == caller \in authorizedOracles \/ caller = Owner

SolSetOracleAuthorization(caller, oracle, authorized) ==
    /\ ledger = "sol"
    /\ LET err == IF caller = Owner THEN "ok" ELSE "OwnableUnauthorizedAccount" IN
         /\ outcome' = Outcome("setOracleAuthorization", caller, "-", "-", err)
         /\ authorizedOracles' =
              IF err # "ok" THEN authorizedOracles
              ELSE IF authorized THEN authorizedOracles \cup {oracle}
              ELSE authorizedOracles \ {oracle}
         /\ OracleAuthorized' =
              IF err # "ok" THEN OracleAuthorized
              ELSE OracleAuthorized \cup { <<oracle, authorized>> }
    /\ UNCHANGED <<ledger, now, matches, performances, playerMatchHistory,
                   totalMatches, moveOracleVars,
                   engineVars, calcVars, registryVars, adapterVars, sdkVars>>

\* registerMatch without its MatchAlreadyExists check
SolRegisterMatchError_NoExistsCheck(caller, matchId) ==
    IF ~onlyAuthorized(caller) THEN "Not authorized" ELSE "ok"

SolRegisterMatchError(caller, matchId) ==
    IF ~onlyAuthorized(caller) THEN "Not authorized"
    ELSE IF matches[matchId].registeredAt # 0 THEN "MatchAlreadyExists"
    ELSE "ok"

SolRegisterMatch(caller, matchId) ==
    /\ ledger = "sol"
    /\ \E t \in BlockTimes :
         LET err == SolRegisterMatchError(caller, matchId) IN
         /\ now' = t
         /\ outcome' = Outcome("registerMatch", caller, matchId, "-", err)
         /\ IF err = "ok"
            THEN /\ matches' = [matches EXCEPT ![matchId] =
                        [registeredAt |-> t, finalizedAt |-> 0,
                         isFinalized |-> FALSE, totalPlayers |-> 0,
                         dataHash |-> "0", organizer |-> caller]]
                 /\ totalMatches' = totalMatches + 1
            ELSE UNCHANGED <<matches, totalMatches>>
    /\ UNCHANGED <<ledger, performances, playerMatchHistory, authorizedOracles,
                   OracleAuthorized,
                   moveOracleVars,
                   engineVars, calcVars, registryVars, adapterVars, sdkVars>>

\* finalizeMatch without its onlyAuthorized modifier
SolFinalizeMatchError_NoAuthCheck(caller, matchId) ==
    IF matches[matchId].registeredAt = 0 THEN "MatchNotFound"
    ELSE IF matches[matchId].isFinalized THEN "MatchAlreadyFinalized"
    ELSE "ok"

SolFinalizeMatchError(caller, matchId) ==
    IF ~onlyAuthorized(caller) THEN "Not authorized"
    ELSE IF matches[matchId].registeredAt = 0 THEN "MatchNotFound"
    ELSE IF matches[matchId].isFinalized THEN "MatchAlreadyFinalized"
    ELSE "ok"

\* finalizeMatch forgetting to stamp finalizedAt
SolFinalized_NoTimestamp(matchData, t, dataHash, playerCount) ==
    [matchData EXCEPT !.isFinalized = TRUE,
                      !.dataHash = dataHash, !.totalPlayers = playerCount]

\* the four writes of finalizeMatch
SolFinalized(matchData, t, dataHash, playerCount) ==
    [matchData EXCEPT !.finalizedAt = t, !.isFinalized = TRUE,
                      !.dataHash = dataHash, !.totalPlayers = playerCount]

SolFinalizeMatch(caller, matchId, dataHash, playerCount) ==
    /\ ledger = "sol"
    /\ \E t \in BlockTimes :
         LET err == SolFinalizeMatchError(caller, matchId) IN
         /\ now' = t
         /\ outcome' = Outcome("finalizeMatch", caller, matchId, "-", err)
         /\ IF err = "ok"
            THEN matches' = [matches EXCEPT ![matchId] =
                     SolFinalized(@, t, dataHash, playerCount)]
            ELSE UNCHANGED matches
    /\ UNCHANGED <<ledger, performances, playerMatchHistory, totalMatches,
                   authorizedOracles, OracleAuthorized, moveOracleVars,
                   engineVars, calcVars, registryVars, adapterVars, sdkVars>>

SolRecordPerformanceError(caller, matchId, tier, effortScore) ==
    IF ~onlyAuthorized(caller) THEN "Not authorized"
    ELSE IF matches[matchId].registeredAt = 0 THEN "MatchNotFound"
    ELSE IF matches[matchId].isFinalized THEN "MatchAlreadyFinalized"
    ELSE IF ~(effortScore <= 100) THEN "Invalid effort score"
    ELSE IF ~(tier <= 7) THEN "Invalid tier"
    ELSE "ok"

\* strike rate: runs * 100 / balls faced, 0 when no ball was faced
SolStrikeRate(runsScored, ballsFaced) ==
    IF ballsFaced > 0 THEN (runsScored * 100) \div ballsFaced ELSE 0

SolRecordPerformance(caller, matchId, player, in) ==
    /\ ledger = "sol"
    /\ Len(playerMatchHistory[player]) < MaxHistory
    /\ \E t \in BlockTimes :
         LET err == SolRecordPerformanceError(caller, matchId, in[5], in[6]) IN
         /\ now' = t
         /\ outcome' = Outcome("recordPerformance", caller, matchId, player, err)
         /\ IF err = "ok"
            THEN /\ performances' = [performances EXCEPT ![<<matchId, player>>] =
                        [runsScored |-> in[1], wicketsTaken |-> in[2],
                         ballsFaced |-> in[3], ballsBowled |-> in[4],
                         strikeRate |-> SolStrikeRate(in[1], in[3]),
                         tier |-> in[5], effortScore |-> in[6],
                         verified |-> TRUE]]
                 /\ playerMatchHistory' = [playerMatchHistory EXCEPT
                        ![player] = Append(@, matchId)]
            ELSE UNCHANGED <<performances, playerMatchHistory>>
    /\ UNCHANGED <<ledger, matches, totalMatches, authorizedOracles,
                   OracleAuthorized,
                   moveOracleVars,
                   engineVars, calcVars, registryVars, adapterVars, sdkVars>>

(***************************************************************************)
(* performance_oracle.move                                                 *)
(***************************************************************************)
MoveOracleInit ==
    /\ oracle_addresses = <<>>
    /\ match_store = <<>>
    /\ performance_store = <<>>
    /\ cricket_performance_store = <<>>

\* vector::contains(&state.oracle_addresses, &addr)
VectorContains(vec, a) == \E i \in 1..Len(vec) : vec[i] = a

\* table::contains(&table, key)
TableContains(table, key) == key \in DOMAIN table

\* table::add, or the write through table::borrow_mut
TableUpsert(table, key, value) ==
    [k \in (DOMAIN table) \cup {key} |-> IF k = key THEN value ELSE table[k]]

MoveIsAuthorized(addr) ==
    addr = Owner \/ VectorContains(oracle_addresses, addr)

MoveAddOracle(admin, oracle_addr) ==
    /\ ledger = "move"
    /\ Len(oracle_addresses) < MaxOracles
    /\ LET err == IF admin = Owner THEN "ok" ELSE "E_NOT_AUTHORIZED" IN
         /\ outcome' = Outcome("add_oracle", admin, "-", "-", err)
         /\ IF err = "ok"
            THEN oracle_addresses' = Append(oracle_addresses, oracle_addr)
            ELSE UNCHANGED oracle_addresses
    /\ UNCHANGED <<ledger, now, match_store, performance_store,
                   cricket_performance_store, solOracleVars,
                   engineVars, calcVars, registryVars, adapterVars, sdkVars>>

MoveRegisterMatchError(oracle, match_id) ==
    IF ~MoveIsAuthorized(oracle) THEN "E_NOT_AUTHORIZED"
    ELSE IF TableContains(match_store, match_id) THEN "E_MATCH_ALREADY_EXISTS"
    ELSE "ok"

MoveRegisterMatch(oracle, match_id, sport) ==
    /\ ledger = "move"
    /\ \E t \in BlockTimes :
         LET err == MoveRegisterMatchError(oracle, match_id) IN
         /\ now' = t
         /\ outcome' = Outcome("registerMatch", oracle, match_id, "-", err)
         /\ IF err = "ok"
            THEN match_store' = TableUpsert(match_store, match_id,
                     [sport |-> sport, status |-> STATUS_REGISTERED,
                      winner |-> 0, data_hash |-> "0", player_count |-> 0,
                      registered_at |-> t, finalized_at |-> 0])
            ELSE UNCHANGED match_store
    /\ UNCHANGED <<ledger, oracle_addresses, performance_store,
                   cricket_performance_store, solOracleVars,
                   engineVars, calcVars, registryVars, adapterVars, sdkVars>>

\* finalize_match without its E_MATCH_ALREADY_FINALIZED assertion
MoveFinalizeMatchError_NoFinalizedCheck(oracle, match_id) ==
    IF ~MoveIsAuthorized(oracle) THEN "E_NOT_AUTHORIZED"
    ELSE IF ~TableContains(match_store, match_id) THEN "E_MATCH_NOT_FOUND"
    ELSE "ok"

MoveFinalizeMatchError(oracle, match_id) ==
    IF ~MoveIsAuthorized(oracle) THEN "E_NOT_AUTHORIZED"
    ELSE IF ~TableContains(match_store, match_id) THEN "E_MATCH_NOT_FOUND"
    ELSE IF ~(match_store[match_id].status # STATUS_FINALIZED)
         THEN "E_MATCH_ALREADY_FINALIZED"
    ELSE "ok"

\* the four writes of finalize_match
MoveFinalized(match_data, t, winner, data_hash) ==
    [match_data EXCEPT !.status = STATUS_FINALIZED, !.winner = winner,
                       !.data_hash = data_hash, !.finalized_at = t]

MoveFinalizeMatch(oracle, match_id, winner, data_hash) ==
    /\ ledger = "move"
    /\ \E t \in BlockTimes :
         LET err == MoveFinalizeMatchError(oracle, match_id) IN
         /\ now' = t
         /\ outcome' = Outcome("finalizeMatch", oracle, match_id, "-", err)
         /\ IF err = "ok"
            THEN match_store' = [match_store EXCEPT ![match_id] =
                     MoveFinalized(@, t, winner, data_hash)]
            ELSE UNCHANGED match_store
    /\ UNCHANGED <<ledger, oracle_addresses, performance_store,
                   cricket_performance_store, solOracleVars,
                   engineVars, calcVars, registryVars, adapterVars, sdkVars>>

\* record_performance without its E_MATCH_NOT_FOUND assertion
MoveRecordPerformanceError_NoMatchCheck(oracle, match_id) ==
    IF ~MoveIsAuthorized(oracle) THEN "E_NOT_AUTHORIZED" ELSE "ok"

MoveRecordPerformanceError(oracle, match_id) ==
    IF ~MoveIsAuthorized(oracle) THEN "E_NOT_AUTHORIZED"
    ELSE IF ~TableContains(match_store, match_id) THEN "E_MATCH_NOT_FOUND"
    ELSE "ok"

MoveRecordPerformance(oracle, match_id, player, in) ==
    /\ ledger = "move"
    /\ \E t \in BlockTimes :
         LET err == MoveRecordPerformanceError(oracle, match_id) IN
         /\ now' = t
         /\ outcome' = Outcome("recordPerformance", oracle, match_id, player, err)
         /\ IF err = "ok"
            THEN performance_store' =
                     TableUpsert(performance_store, <<match_id, player>>,
                         [performance_score |-> in[1], effort_score |-> in[2],
                          reward_tier |-> in[3], timestamp |-> t,
                          verified |-> TRUE])
            ELSE UNCHANGED performance_store
    /\ UNCHANGED <<ledger, oracle_addresses, match_store,
                   cricket_performance_store, solOracleVars,
                   engineVars, calcVars, registryVars, adapterVars, sdkVars>>

MoveRecordCricketPerformance(oracle, match_id, player, in) ==
    /\ ledger = "move"
    /\ \E t \in BlockTimes :
         LET err == MoveRecordPerformanceError(oracle, match_id) IN
         /\ now' = t
         /\ outcome' = Outcome("recordCricketPerformance", oracle, match_id, player, err)
         /\ IF err = "ok"
            THEN cricket_performance_store' =
                     TableUpsert(cricket_performance_store, <<match_id, player>>,
                         [runs |-> in[1], balls_faced |-> in[2],
                          wickets |-> in[3], overs_bowled |-> in[4],
                          runs_conceded |-> in[5], maiden_overs |-> in[6],
                          timestamp |-> t])
            ELSE UNCHANGED cricket_performance_store
    /\ UNCHANGED <<ledger, oracle_addresses, match_store, performance_store,
                   solOracleVars,
                   engineVars, calcVars, registryVars, adapterVars, sdkVars>>

(***************************************************************************)
(* Token amounts.  The ledgers count in 10**18 (Solidity) and 10^8 (Move)  *)
(* base units per token; the model keeps the two units distinct but scales *)
(* both down so that every amount fits the model checker's integers.       *)
(***************************************************************************)
WeiPerToken == 10000
OctasPerToken == 1000
InitialSupplyTokens == 1000
MaxUint256 == 2147483647

TIER_ALL_ROUNDER == 7
TierIds == 0 .. TIER_ALL_ROUNDER
\* uint8 tier arguments the model passes: the eight tiers and one beyond
Uint8Tiers == 0 .. (TIER_ALL_ROUNDER + 1)

(***************************************************************************)
(* DeflatinaryBurn.sol                                                     *)
(***************************************************************************)
\* constructor: burn multipliers (x10) and base rewards of tiers 0..7
SolDefaultMultipliers == <<15, 30, 25, 30, 15, 40, 13, 20>>
SolDefaultBaseRewards == <<50, 150, 100, 200, 30, 250, 40, 120>>

ZeroBurnTransaction ==
    [burnAmount |-> 0, rewardAmount |-> 0, tier |-> 0, effortScore |-> 0,
     timestamp |-> 0, executed |-> FALSE]

SolBurnInit ==
    /\ oracleContract = "performanceOracle"
    /\ burnMultipliers =
         [t \in Uint8Tiers |-> IF t \in TierIds THEN SolDefaultMultipliers[t + 1] ELSE 0]
    /\ baseRewards =
         [t \in Uint8Tiers |->
            IF t \in TierIds THEN SolDefaultBaseRewards[t + 1] * WeiPerToken ELSE 0]
    /\ totalBurnedAmount = 0
    /\ totalRewardsDistributed = 0
    /\ playerTotalRewards = [p \in BurnPlayers |-> 0]
    /\ playerTotalBurned = [p \in BurnPlayers |-> 0]
    /\ burnTransactions = [k \in BurnMatchIds \X BurnPlayers |-> ZeroBurnTransaction]

\* modifier onlyOracle
onlyOracle(caller) == caller = oracleContract \/ caller = Owner

SolSetOracleContract(caller, newOracle) ==
    /\ ledger = "sol"
    /\ \E t \in BlockTimes :
         LET err == IF caller # Owner THEN "OwnableUnauthorizedAccount" ELSE "ok" IN
         /\ now' = t
         /\ outcome' = Outcome("setOracleContract", caller, "-", "-", err)
         /\ oracleContract' = IF err = "ok" THEN newOracle ELSE oracleContract
    /\ UNCHANGED <<ledger, burnMultipliers, baseRewards, totalBurnedAmount,
                   totalRewardsDistributed, playerTotalRewards, playerTotalBurned,
                   burnTransactions, oracleVars, rewardTiersVars, solTokenVars, moveBurnVars,
                   moveTokenVars, calcVars, registryVars, adapterVars, sdkVars,
                   tokenHistoryVars>>

\* the reverts of calculateReward
calculateRewardError(tier, effortScore) ==
    IF tier > TIER_ALL_ROUNDER THEN "InvalidTier"
    ELSE IF effortScore > 100 THEN "InvalidEffortScore"
    ELSE "ok"

\* the value calculateReward returns when it does not revert
calculateReward(tier, effortScore) ==
    LET baseReward == baseRewards[tier]
        burnMultiplier == burnMultipliers[tier]
        effortAdjusted == (baseReward * effortScore) \div 100
        finalReward == (effortAdjusted * burnMultiplier) \div 10
    IN finalReward

\* burnForPerformance with a burn of 1% of the reward
burnAmountOf_OnePercent(rewardAmount) == rewardAmount \div 100

\* burnAmount = rewardAmount / 10 (10% of the reward)
burnAmountOf(rewardAmount) == rewardAmount \div 10

\* burnForPerformance without its executed check
SolBurnError_NoExecutedCheck(caller, txId, tier, effortScore) ==
    IF ~onlyOracle(caller) THEN "Not authorized"
    ELSE calculateRewardError(tier, effortScore)

\* the reverts of burnForPerformance, in the order the code raises them
SolBurnError(caller, txId, tier, effortScore) ==
    IF ~onlyOracle(caller) THEN "Not authorized"
    ELSE IF burnTransactions[txId].executed THEN "BurnAlreadyExecuted"
    ELSE calculateRewardError(tier, effortScore)

\* the transaction burnForPerformance(matchId, player, tier, effortScore) sent by caller
burnForPerformance(caller, matchId, player, tier, effortScore) ==
    /\ ledger = "sol"
    /\ \E t \in BlockTimes :
         LET txId == <<matchId, player>>
             err == SolBurnError(caller, txId, tier, effortScore)
             rewardAmount == calculateReward(tier, effortScore)
             burnAmount == burnAmountOf(rewardAmount)
         IN
         /\ now' = t
         /\ outcome' = Outcome("burnForPerformance", caller, matchId, player, err)
         /\ IF err = "ok"
            THEN /\ burnTransactions' = [burnTransactions EXCEPT ![txId] =
                        [burnAmount |-> burnAmount, rewardAmount |-> rewardAmount,
                         tier |-> tier, effortScore |-> effortScore,
                         timestamp |-> t, executed |-> TRUE]]
                 /\ totalBurnedAmount' = totalBurnedAmount + burnAmount
                 /\ totalRewardsDistributed' = totalRewardsDistributed + rewardAmount
                 /\ playerTotalRewards' =
                        [playerTotalRewards EXCEPT ![player] = @ + rewardAmount]
                 /\ playerTotalBurned' =
                        [playerTotalBurned EXCEPT ![player] = @ + burnAmount]
            ELSE UNCHANGED <<burnTransactions, totalBurnedAmount,
                             totalRewardsDistributed, playerTotalRewards,
                             playerTotalBurned>>
    /\ UNCHANGED <<ledger, oracleContract, burnMultipliers, baseRewards, oracleVars,
                   rewardTiersVars, solTokenVars, moveBurnVars, moveTokenVars, calcVars, registryVars, adapterVars,
                   tokenHistoryVars>>

\* burnForPerformance sent directly, not through a validator SDK request
SolBurnForPerformance(caller, matchId, player, tier, effortScore) ==
    /\ burnForPerformance(caller, matchId, player, tier, effortScore)
    /\ UNCHANGED sdkVars

SolUpdateTier(caller, tier, multiplier, baseReward) ==
    /\ ledger = "sol"
    /\ \E t \in BlockTimes :
         LET err == IF caller # Owner THEN "OwnableUnauthorizedAccount"
                    ELSE IF tier > TIER_ALL_ROUNDER THEN "InvalidTier"
                    ELSE "ok" IN
         /\ now' = t
         /\ outcome' = TierOutcome("updateTier", caller, "DeflatinaryBurn", err,
                                   <<tier, multiplier, baseReward>>)
         /\ IF err = "ok"
            THEN /\ burnMultipliers' = [burnMultipliers EXCEPT ![tier] = multiplier]
                 /\ baseRewards' = [baseRewards EXCEPT ![tier] = baseReward]
            ELSE UNCHANGED <<burnMultipliers, baseRewards>>
    /\ UNCHANGED <<ledger, oracleContract, totalBurnedAmount, totalRewardsDistributed,
                   playerTotalRewards, playerTotalBurned, burnTransactions,
                   oracleVars, rewardTiersVars, solTokenVars, moveBurnVars, moveTokenVars, calcVars, registryVars, adapterVars,
                   sdkVars,
                   tokenHistoryVars>>

(***************************************************************************)
(* RewardTiers.sol: the eight tiers as a contract of their own, with an    *)
(* isActive flag per tier.                                                 *)
(***************************************************************************)
totalTiers == 8

\* the constructor's eight _configureTier calls
RewardTiersInit ==
    tiers = [t \in Uint8Tiers |->
               IF t < totalTiers
               THEN [multiplier |-> SolDefaultMultipliers[t + 1],
                     baseReward |-> SolDefaultBaseRewards[t + 1] * WeiPerToken,
                     isActive |-> TRUE]
               ELSE [multiplier |-> 0, baseReward |-> 0, isActive |-> FALSE]]

RewardTiersUnchanged ==
    UNCHANGED <<ledger, oracleVars, solBurnVars, solTokenVars, moveBurnVars,
                moveTokenVars, tokenHistoryVars, calcVars, registryVars, adapterVars, sdkVars>>

\* updateTier accepting every uint8 tier id
RewardTiersUpdateTierError_NoTierCheck(caller, tierId) ==
    IF caller # Owner THEN "OwnableUnauthorizedAccount" ELSE "ok"

RewardTiersUpdateTierError(caller, tierId) ==
    IF caller # Owner THEN "OwnableUnauthorizedAccount"
    ELSE IF tierId >= totalTiers THEN "InvalidTier"
    ELSE "ok"

RewardTiersUpdateTier(caller, tierId, multiplier, baseReward) ==
    /\ ledger = "sol"
    /\ \E t \in BlockTimes :
         LET err == RewardTiersUpdateTierError(caller, tierId) IN
         /\ now' = t
         /\ outcome' = TierOutcome("updateTier", caller, "RewardTiers", err,
                                   <<tierId, multiplier, baseReward>>)
         /\ tiers' = IF err = "ok"
                     THEN [tiers EXCEPT ![tierId].multiplier = multiplier,
                                        ![tierId].baseReward = baseReward]
                     ELSE tiers
    /\ RewardTiersUnchanged

RewardTiersSetTierActive(caller, tierId, active) ==
    /\ ledger = "sol"
    /\ \E t \in BlockTimes :
         LET err == IF caller # Owner THEN "OwnableUnauthorizedAccount"
                    ELSE IF tierId >= totalTiers THEN "InvalidTier"
                    ELSE "ok" IN
         /\ now' = t
         /\ outcome' = TierOutcome("setTierActive", caller, "RewardTiers", err,
                                   <<tierId, active>>)
         /\ tiers' = IF err = "ok"
                     THEN [tiers EXCEPT ![tierId].isActive = active]
                     ELSE tiers
    /\ RewardTiersUnchanged

\* getTierMultiplier(tierId): the pair it returns, or the error it reverts with
getTierMultiplier(tierId) ==
    IF tierId >= totalTiers THEN "InvalidTier"
    ELSE IF ~tiers[tierId].isActive THEN "TierNotActive"
    ELSE <<tiers[tierId].multiplier, tiers[tierId].baseReward>>

\* getTierDetails(tierId), its multiplier and baseReward
getTierDetails(tierId) ==
    IF tierId >= totalTiers THEN "InvalidTier"
    ELSE <<tiers[tierId].multiplier, tiers[tierId].baseReward>>

ZeroAddress == "0x0"
\* the address of the deployed DeflatinaryBurn contract
BurnEngine == "burnEngine"

\* SPPToken.sol: the constructor mints the initial supply to the deployer
SolTokenInit ==
    /\ erc20_balances =
         [a \in Accounts |-> IF a = Owner THEN InitialSupplyTokens * WeiPerToken ELSE 0]
    /\ erc20_allowances = [a \in Accounts |-> 0]
    /\ erc20_totalSupply = InitialSupplyTokens * WeiPerToken
    /\ tokenTotalBurned = 0
    /\ burnContract = ZeroAddress

SolTokenUnchanged ==
    UNCHANGED <<ledger, oracleVars, solBurnVars, rewardTiersVars, moveBurnVars,
                moveTokenVars, calcVars, registryVars, adapterVars, sdkVars>>

\* setBurnContract(_burnContract)
SolSetBurnContract(caller, _burnContract) ==
    /\ ledger = "sol"
    /\ \E t \in BlockTimes :
         LET err == IF caller # Owner THEN "OwnableUnauthorizedAccount"
                    ELSE IF _burnContract = ZeroAddress
                         THEN "Invalid burn contract address"
                    ELSE "ok" IN
         /\ now' = t
         /\ outcome' = Outcome("setBurnContract", caller, "-", "-", err)
         /\ burnContract' = IF err = "ok" THEN _burnContract ELSE burnContract
    /\ UNCHANGED <<erc20_balances, erc20_allowances, erc20_totalSupply,
                   tokenTotalBurned, tokenHistoryVars>>
    /\ SolTokenUnchanged

\* approve(BurnEngine, amount) sent by caller
SolTokenApprove(caller, amount) ==
    /\ ledger = "sol"
    /\ \E t \in BlockTimes :
         /\ now' = t
         /\ outcome' = Outcome("approve", caller, "-", "-", "ok")
         /\ erc20_allowances' = [erc20_allowances EXCEPT ![caller] = amount]
    /\ UNCHANGED <<erc20_balances, erc20_totalSupply, tokenTotalBurned, burnContract,
                   tokenHistoryVars>>
    /\ SolTokenUnchanged

\* ERC20.transfer(to, amount) sent by caller
SolTokenTransfer(caller, to, amount) ==
    /\ ledger = "sol"
    /\ \E t \in BlockTimes :
         LET err == IF erc20_balances[caller] < amount
                    THEN "ERC20InsufficientBalance" ELSE "ok" IN
         /\ now' = t
         /\ outcome' = Outcome("transfer", caller, "-", to, err)
         /\ erc20_balances' =
              IF err = "ok"
              THEN [a \in Accounts |->
                      erc20_balances[a] - (IF a = caller THEN amount ELSE 0)
                                        + (IF a = to THEN amount ELSE 0)]
              ELSE erc20_balances
    /\ UNCHANGED <<erc20_allowances, erc20_totalSupply, tokenTotalBurned, burnContract,
                   tokenHistoryVars>>
    /\ SolTokenUnchanged

\* mint open to every caller
SolTokenMintError_NoOwnerCheck(caller) == "ok"

\* mint(to, amount): onlyOwner
SolTokenMintError(caller) ==
    IF caller # Owner THEN "OwnableUnauthorizedAccount" ELSE "ok"

SolTokenMint(caller, to, amount) ==
    /\ ledger = "sol"
    /\ \E t \in BlockTimes :
         LET err == SolTokenMintError(caller) IN
         /\ now' = t
         /\ outcome' = Outcome("mint", caller, "-", to, err)
         /\ IF err = "ok"
            THEN /\ erc20_balances' = [erc20_balances EXCEPT ![to] = @ + amount]
                 /\ erc20_totalSupply' = erc20_totalSupply + amount
                 /\ mintedAmount' = mintedAmount + amount
            ELSE UNCHANGED <<erc20_balances, erc20_totalSupply, mintedAmount>>
    /\ UNCHANGED <<erc20_allowances, tokenTotalBurned, burnContract, burnedAmount>>
    /\ SolTokenUnchanged

\* burn(amount): super.burn(amount); _totalBurned += amount
SolTokenBurn(caller, amount) ==
    /\ ledger = "sol"
    /\ \E t \in BlockTimes :
         LET err == IF erc20_balances[caller] < amount
                    THEN "ERC20InsufficientBalance" ELSE "ok" IN
         /\ now' = t
         /\ outcome' = Outcome("burn", caller, "-", caller, err)
         /\ IF err = "ok"
            THEN /\ erc20_balances' = [erc20_balances EXCEPT ![caller] = @ - amount]
                 /\ erc20_totalSupply' = erc20_totalSupply - amount
                 /\ tokenTotalBurned' = tokenTotalBurned + amount
                 /\ burnedAmount' = burnedAmount + amount
            ELSE UNCHANGED <<erc20_balances, erc20_totalSupply, tokenTotalBurned,
                             burnedAmount>>
    /\ UNCHANGED <<erc20_allowances, burnContract, mintedAmount>>
    /\ SolTokenUnchanged

\* the allowance account has given to spender: only the burn engine is ever
\* approved
allowance(account, spender) ==
    IF spender = BurnEngine THEN erc20_allowances[account] ELSE 0

\* burnFrom keeping no count of what the burn contract burns
TotalBurnedAfterBurnFrom_NotCounted(caller, amount) ==
    IF caller = burnContract THEN tokenTotalBurned ELSE tokenTotalBurned + amount

\* _totalBurned += amount, in both branches of burnFrom
TotalBurnedAfterBurnFrom(caller, amount) == tokenTotalBurned + amount

\* burnFrom(account, amount): the burn contract burns without approval,
\* everyone else through ERC20Burnable.burnFrom (_spendAllowance, then _burn)
SolTokenBurnFrom(caller, account, amount) ==
    /\ ledger = "sol"
    /\ \E t \in BlockTimes :
         LET spends == caller # burnContract
                         /\ allowance(account, caller) # MaxUint256
             err == IF spends /\ allowance(account, caller) < amount
                    THEN "ERC20InsufficientAllowance"
                    ELSE IF erc20_balances[account] < amount
                         THEN "ERC20InsufficientBalance"
                    ELSE "ok" IN
         /\ now' = t
         /\ outcome' = Outcome("burnFrom", caller, "-", account, err)
         /\ IF err = "ok"
            THEN /\ erc20_allowances' =
                      IF spends /\ caller = BurnEngine
                      THEN [erc20_allowances EXCEPT ![account] = @ - amount]
                      ELSE erc20_allowances
                 /\ erc20_balances' = [erc20_balances EXCEPT ![account] = @ - amount]
                 /\ erc20_totalSupply' = erc20_totalSupply - amount
                 /\ tokenTotalBurned' = TotalBurnedAfterBurnFrom(caller, amount)
                 /\ burnedAmount' = burnedAmount + amount
            ELSE UNCHANGED <<erc20_allowances, erc20_balances, erc20_totalSupply,
                             tokenTotalBurned, burnedAmount>>
    /\ UNCHANGED <<burnContract, mintedAmount>>
    /\ SolTokenUnchanged

(***************************************************************************)
(* reward_tiers.move, spp_token.move, deflatinary_burn.move                *)
(***************************************************************************)
\* reward_tiers::initialize: <<multiplier (x100), base reward, min_score>> of tiers 0..7
MoveDefaultTiers ==
    << <<150, 50, 50>>, <<300, 150, 70>>, <<250, 100, 60>>, <<300, 200, 80>>,
       <<150, 30, 40>>, <<400, 250, 90>>, <<130, 40, 45>>, <<200, 120, 65>> >>

TierConfig(tier, multiplier, base_reward, min_score) ==
    [tier |-> tier, multiplier |-> multiplier, base_reward |-> base_reward,
     min_score |-> min_score]

MoveTiersInit ==
    tiers_state =
        [t \in TierIds |->
            TierConfig(t, MoveDefaultTiers[t + 1][1],
                       MoveDefaultTiers[t + 1][2] * OctasPerToken,
                       MoveDefaultTiers[t + 1][3])]

MoveUpdateTier(admin, tier, multiplier, base_reward, min_score) ==
    /\ ledger = "move"
    /\ \E t \in BlockTimes :
         LET err == IF admin # Owner THEN "E_NOT_AUTHORIZED"
                    ELSE IF ~(tier <= 7) THEN "E_INVALID_TIER"
                    ELSE "ok" IN
         /\ now' = t
         /\ outcome' = TierOutcome("updateTier", admin, "reward_tiers", err,
                                   <<tier, multiplier, base_reward, min_score>>)
         /\ tiers_state' =
               IF err = "ok"
               THEN [tiers_state EXCEPT ![tier] =
                        TierConfig(tier, multiplier, base_reward, min_score)]
               ELSE tiers_state
    /\ UNCHANGED <<ledger, burn_records, total_burned, total_rewards, player_rewards,
                   player_burned, oracleVars, solBurnVars, rewardTiersVars, solTokenVars,
                   moveTokenVars, calcVars, registryVars, adapterVars, sdkVars,
                   tokenHistoryVars>>

\* get_tier_config(tier): (multiplier, base_reward), or the abort code
get_tier_config(tier) ==
    IF ~(tier <= 7) THEN "E_INVALID_TIER"
    ELSE <<tiers_state[tier].multiplier, tiers_state[tier].base_reward>>

\* spp_token::initialize mints INITIAL_SUPPLY to the admin
INITIAL_SUPPLY == InitialSupplyTokens * OctasPerToken

MoveTokenInit ==
    /\ primary_store = [a \in Accounts |-> IF a = Owner THEN INITIAL_SUPPLY ELSE 0]
    /\ token_stats = [total_burned |-> 0, circulating_supply |-> INITIAL_SUPPLY,
                      paused |-> FALSE]

\* nothing minted or burned since deployment
TokenHistoryInit == mintedAmount = 0 /\ burnedAmount = 0

MoveTokenUnchanged ==
    UNCHANGED <<ledger, oracleVars, solBurnVars, rewardTiersVars, solTokenVars,
                moveBurnVars, calcVars, registryVars, adapterVars, sdkVars>>

\* spp_token::mint(admin, to, amount)
MoveTokenMint(admin, to, amount) ==
    /\ ledger = "move"
    /\ \E t \in BlockTimes :
         LET err == IF ~(admin = Owner) THEN "E_NOT_OWNER" ELSE "ok" IN
         /\ now' = t
         /\ outcome' = Outcome("mint", admin, "-", to, err)
         /\ IF err = "ok"
            THEN /\ primary_store' = [primary_store EXCEPT ![to] = @ + amount]
                 /\ token_stats' =
                      [token_stats EXCEPT !.circulating_supply = @ + amount]
                 /\ mintedAmount' = mintedAmount + amount
            ELSE UNCHANGED <<primary_store, token_stats, mintedAmount>>
    /\ UNCHANGED burnedAmount
    /\ MoveTokenUnchanged

\* spp_token::burn(account, amount)
MoveTokenBurn(account, amount) ==
    /\ ledger = "move"
    /\ \E t \in BlockTimes :
         LET err == IF primary_store[account] < amount
                    THEN "EINSUFFICIENT_BALANCE" ELSE "ok" IN
         /\ now' = t
         /\ outcome' = Outcome("burn", account, "-", account, err)
         /\ IF err = "ok"
            THEN /\ primary_store' = [primary_store EXCEPT ![account] = @ - amount]
                 /\ token_stats' =
                      [token_stats EXCEPT !.total_burned = @ + amount,
                                          !.circulating_supply = @ - amount]
                 /\ burnedAmount' = burnedAmount + amount
            ELSE UNCHANGED <<primary_store, token_stats, burnedAmount>>
    /\ UNCHANGED mintedAmount
    /\ MoveTokenUnchanged

\* primary_fungible_store::transfer(from, metadata, to, amount)
MoveTokenTransfer(from, to, amount) ==
    /\ ledger = "move"
    /\ \E t \in BlockTimes :
         LET err == IF primary_store[from] < amount
                    THEN "EINSUFFICIENT_BALANCE" ELSE "ok" IN
         /\ now' = t
         /\ outcome' = Outcome("transfer", from, "-", to, err)
         /\ primary_store' =
              IF err = "ok"
              THEN [a \in Accounts |->
                      primary_store[a] - (IF a = from THEN amount ELSE 0)
                                       + (IF a = to THEN amount ELSE 0)]
              ELSE primary_store
    /\ UNCHANGED <<token_stats, tokenHistoryVars>>
    /\ MoveTokenUnchanged

MoveBurnInit ==
    /\ burn_records = << >>
    /\ total_burned = 0
    /\ total_rewards = 0
    /\ player_rewards = << >>
    /\ player_burned = << >>

\* calculate_reward: (base_reward * multiplier * effort_multiplier) / 10000.
\* The quotient is computed from base_reward * multiplier split at 10000, which
\* gives the same integer without an intermediate product beyond the
\* checker's integers.
calculate_reward(tier, effort_score) ==
    LET multiplier == tiers_state[tier].multiplier
        base_reward == tiers_state[tier].base_reward
        effort_multiplier == effort_score
        product == base_reward * multiplier
        reward == (product \div 10000) * effort_multiplier
                     + ((product % 10000) * effort_multiplier) \div 10000
    IN reward

\* burn_amount = reward_amount / 10 (10% of the reward)
burn_amount_of(reward_amount) == reward_amount \div 10

\* burn_for_performance without its E_ALREADY_BURNED assertion
MoveBurnError_NoAlreadyBurnedCheck(player_addr, burn_key, tier, effort_score) ==
    IF ~(tier <= 7) THEN "E_INVALID_TIER"
    ELSE IF primary_store[player_addr] < burn_amount_of(calculate_reward(tier, effort_score))
         THEN "EINSUFFICIENT_BALANCE"
    ELSE "ok"

\* the aborts of burn_for_performance, in the order the code raises them; the
\* last one is primary_fungible_store::burn inside spp_token::burn
MoveBurnError(player_addr, burn_key, tier, effort_score) ==
    IF ~(tier <= 7) THEN "E_INVALID_TIER"
    ELSE IF TableContains(burn_records, burn_key) THEN "E_ALREADY_BURNED"
    ELSE IF primary_store[player_addr] < burn_amount_of(calculate_reward(tier, effort_score))
         THEN "EINSUFFICIENT_BALANCE"
    ELSE "ok"

\* the player entry replaced by the amount instead of increased by it
TableAddTo_Overwrite(table, key, amount) == TableUpsert(table, key, amount)

\* player_rewards / player_burned: add to the entry, or create it
TableAddTo(table, key, amount) ==
    IF TableContains(table, key)
    THEN [table EXCEPT ![key] = @ + amount]
    ELSE TableUpsert(table, key, amount)

\* the transaction burn_for_performance(match_id, tier, performance_score,
\* effort_score) signed by player
burn_for_performance(player, match_id, tier, performance_score, effort_score) ==
    /\ ledger = "move"
    /\ \E t \in BlockTimes :
         LET player_addr == player
             burn_key == <<match_id, player_addr>>
             err == MoveBurnError(player_addr, burn_key, tier, effort_score)
             reward_amount == calculate_reward(tier, effort_score)
             burn_amount == burn_amount_of(reward_amount)
         IN
         /\ now' = t
         /\ outcome' = Outcome("burnForPerformance", player, match_id, player_addr, err)
         /\ IF err = "ok"
            THEN /\ primary_store' = [primary_store EXCEPT ![player_addr] =
                                         (@ - burn_amount) + reward_amount]
                 /\ token_stats' = [token_stats EXCEPT
                        !.total_burned = @ + burn_amount,
                        !.circulating_supply = (@ - burn_amount) + reward_amount]
                 /\ burn_records' = TableUpsert(burn_records, burn_key,
                        [burn_amount |-> burn_amount, reward_amount |-> reward_amount,
                         tier |-> tier, effort_score |-> effort_score,
                         timestamp |-> t])
                 /\ total_burned' = total_burned + burn_amount
                 /\ total_rewards' = total_rewards + reward_amount
                 /\ player_burned' = TableAddTo(player_burned, player_addr, burn_amount)
                 /\ player_rewards' = TableAddTo(player_rewards, player_addr, reward_amount)
                 /\ burnedAmount' = burnedAmount + burn_amount
                 /\ mintedAmount' = mintedAmount + reward_amount
            ELSE UNCHANGED <<primary_store, token_stats, burn_records, total_burned,
                             total_rewards, player_burned, player_rewards,
                             tokenHistoryVars>>
    /\ UNCHANGED <<ledger, tiers_state, oracleVars, solBurnVars, rewardTiersVars, solTokenVars,
                   calcVars, registryVars, adapterVars>>

\* burn_for_performance sent directly, not through a validator SDK request
MoveBurnForPerformance(player, match_id, tier, performance_score, effort_score) ==
    /\ burn_for_performance(player, match_id, tier, performance_score, effort_score)
    /\ UNCHANGED sdkVars

(***************************************************************************)
(* The reward function of both ledgers on the same inputs.                 *)
(***************************************************************************)
NoResult == [err |-> "none", value |-> 0]

\* tier parameters <<baseReward, multiplier at scale 10>> set through
\* updateTier / update_tier before the call
RewardConfigs == { <<250, 40>>, <<1, 20>>, <<7, 15>>, <<50, 13>> }
EffortScores == 0 .. 101

RewardInit ==
    /\ ledger = "-"
    /\ now = 1
    /\ outcome = Outcome("updateTier", Owner, "-", "-", "ok")
    /\ SolOracleInit /\ MoveOracleInit
    /\ SolTokenInit /\ MoveTokenInit /\ MoveBurnInit
    /\ RewardTiersInit /\ TokenHistoryInit /\ RegistryInit /\ AdapterInit
    /\ wallet = "-" /\ requests = << >>
    /\ calcTier \in Uint8Tiers
    /\ calcEffort \in EffortScores
    /\ solReward = NoResult
    /\ moveReward = NoResult
    /\ oracleContract = "performanceOracle"
    /\ totalBurnedAmount = 0
    /\ totalRewardsDistributed = 0
    /\ playerTotalRewards = [p \in BurnPlayers |-> 0]
    /\ playerTotalBurned = [p \in BurnPlayers |-> 0]
    /\ burnTransactions = [k \in BurnMatchIds \X BurnPlayers |-> ZeroBurnTransaction]
    /\ \E cfg \in RewardConfigs :
         /\ burnMultipliers =
              [t \in Uint8Tiers |-> IF t \in TierIds THEN cfg[2] ELSE 0]
         /\ baseRewards =
              [t \in Uint8Tiers |-> IF t \in TierIds THEN cfg[1] ELSE 0]
         /\ tiers_state =
              [t \in TierIds |->
                 TierConfig(t, cfg[2] * 10, cfg[1], MoveDefaultTiers[t + 1][3])]

\* a call of DeflatinaryBurn.calculateReward(calcTier, calcEffort)
SolCalculateReward ==
    /\ solReward = NoResult
    /\ LET err == calculateRewardError(calcTier, calcEffort) IN
       solReward' = [err |-> err,
                     value |-> IF err = "ok"
                               THEN calculateReward(calcTier, calcEffort) ELSE 0]
    /\ UNCHANGED <<commonVars, oracleVars, engineVars, registryVars, adapterVars, calcTier, calcEffort,
                   moveReward, sdkVars>>

\* a call of deflatinary_burn::calculate_reward(calcTier, calcEffort); the
\* assertion is the one of reward_tiers::get_tier_config
MoveCalculateReward ==
    /\ moveReward = NoResult
    /\ LET err == IF ~(calcTier <= 7) THEN "E_INVALID_TIER" ELSE "ok" IN
       moveReward' = [err |-> err,
                      value |-> IF err = "ok"
                                THEN calculate_reward(calcTier, calcEffort) ELSE 0]
    /\ UNCHANGED <<commonVars, oracleVars, engineVars, registryVars, adapterVars, calcTier, calcEffort,
                   solReward, sdkVars>>

RewardNext == SolCalculateReward \/ MoveCalculateReward

SpecReward == RewardInit /\ [][RewardNext]_vars

(***************************************************************************)
(* The burn engines from deployment.                                       *)
(***************************************************************************)
CalcIdle ==
    /\ calcTier = 0 /\ calcEffort = 0
    /\ solReward = NoResult /\ moveReward = NoResult

SdkIdle == wallet = "-" /\ requests = << >>

EngineInit ==
    /\ SolBurnInit /\ RewardTiersInit /\ SolTokenInit
    /\ MoveTiersInit /\ MoveBurnInit /\ MoveTokenInit
    /\ TokenHistoryInit

BurnInit ==
    /\ ledger \in Ledgers
    /\ now = 1
    /\ outcome = Outcome("deploy", Owner, "-", "-", "ok")
    /\ SolOracleInit /\ MoveOracleInit
    /\ EngineInit
    /\ CalcIdle /\ SdkIdle /\ RegistryInit /\ AdapterInit

\* the registry service, started with no chain registered, beside the
\* deployed contracts, which it never touches
RegistrySpecInit ==
    /\ ledger = "-"
    /\ now = 1
    /\ outcome = Outcome("deploy", "-", "-", "-", "ok")
    /\ SolOracleInit /\ MoveOracleInit
    /\ EngineInit
    /\ CalcIdle /\ SdkIdle /\ RegistryInit /\ AdapterInit

\* one chain type is registered, unregistered, registered again and probed,
\* by up to two overlapping checkChainHealth calls; maxFailures is set to 0
\* (unset) or 2
RegistryNext ==
    \/ \E chainConfig \in {ConfigFields, ConfigFields \ {"oracle"}} :
         RegisterChain("opbnb", chainConfig)
    \/ UnregisterChain("opbnb")
    \/ \E maxFailures \in {0, 2} : Configure([maxFailures |-> maxFailures])
    \/ \E p \in ProbeIds :
         /\ \A q \in ProbeIds : q < p => probes[q].pc = "await"
         /\ CheckChainHealthStart(p, "opbnb")
         /\ UNCHANGED rounds
    \/ \E p \in ProbeIds, isHealthy \in {"true", "false", "throw"} :
         CheckChainHealthComplete(p, isHealthy)

SpecRegistry == RegistrySpecInit /\ [][RegistryNext]_vars

\* the registry after registerChain has succeeded once for each chain type,
\* in any order
FailoverInit ==
    /\ ledger = "-"
    /\ now = 1
    /\ outcome = Outcome("deploy", "-", "-", "-", "ok")
    /\ SolOracleInit /\ MoveOracleInit
    /\ EngineInit
    /\ CalcIdle /\ SdkIdle /\ AdapterInit
    /\ chains \in { c \in [1 .. 3 -> [chainType : ChainTypes, entry : 1 .. 3]] :
                      /\ \A i \in 1 .. 3 : c[i].entry = i
                      /\ \A i, j \in 1 .. 3 : i # j => c[i].chainType # c[j].chainType }
    /\ entries = [i \in 1 .. 3 |->
                    [chainType |-> chains[i].chainType, isHealthy |-> TRUE,
                     lastHealthCheck |-> 1, failureCount |-> 0, lastError |-> "-"]]
    /\ nextEntry = 4
    /\ config = DefaultConfig
    /\ probes = [p \in ProbeIds |-> NoProbe]
    /\ emitted = << >>
    /\ rounds = [p \in ProbeIds |-> 0]
    /\ healthCheckInterval = 1
    /\ timers = {1}

\* the registered chains are probed, one checkChainHealth call at a time, and
\* asked for with getAdapter, under every setting of enableFailover and
\* primaryChain
FailoverNext ==
    \/ \E enableFailover \in BOOLEAN : Configure([enableFailover |-> enableFailover])
    \/ \E primaryChain \in ChainTypes \cup {"-"} :
         Configure([primaryChain |-> primaryChain])
    \/ \E chainType \in ChainTypes :
         CheckChainHealthStart(1, chainType) /\ UNCHANGED rounds
    \/ \E isHealthy \in {"true", "false"} : CheckChainHealthComplete(1, isHealthy)
    \/ \E chainType \in ChainTypes : GetAdapter(chainType)

SpecFailover == FailoverInit /\ [][FailoverNext]_vars

\* periodic monitoring rounds over the registered chains, up to two of them
\* overlapping, with a manual checkChainHealth by a slot that runs no round
MonitorNext ==
    \/ \E p \in ProbeIds : RoundStart(p)
    \/ \E p \in ProbeIds : RoundProbe(p)
    \/ \E p \in ProbeIds : RoundEnd(p)
    \/ \E p \in ProbeIds, isHealthy \in {"true", "false"} :
         CheckChainHealthComplete(p, isHealthy)
    \/ /\ rounds[2] = 0
       /\ CheckChainHealthStart(2, "arbitrum")
       /\ UNCHANGED rounds

\* calls of waitForConfirmation with a timeout of 0, 1 or 2 sleeps, while
\* time passes and transactions are mined
ConfirmNext ==
    \/ \E txHash \in TxHashes, timeoutMs \in 0 .. 2 :
         WaitForConfirmation(txHash, timeoutMs)
    \/ WaitLoop
    \/ \E rpcOk \in BOOLEAN : WaitPolled(rpcOk)
    \/ WaitSleep
    \/ Tick
    \/ \E txHash \in TxHashes, status \in {"success", "reverted"} : Mine(txHash, status)

SpecConfirm == RegistrySpecInit /\ [][ConfirmNext]_vars

SpecMonitor == FailoverInit /\ [][MonitorNext]_vars

\* the event loop runs every continuation that is ready, and the health
\* checks of opbnb and aptos return; the health check of arbitrum may never
\* return
SpecMonitorFair ==
    /\ SpecMonitor
    /\ \A p \in ProbeIds :
         /\ WF_vars(RoundProbe(p))
         /\ WF_vars(RoundEnd(p))
         /\ WF_vars(/\ probes[p].chainType # "arbitrum"
                    /\ \E isHealthy \in {"true", "false"} :
                         CheckChainHealthComplete(p, isHealthy))

BurnNext ==
    \/ \E c \in EngineCallers : SolSetOracleAuthorization(c, "oracle", TRUE)
    \/ \E c \in EngineCallers, o \in OracleContracts : SolSetOracleContract(c, o)
    \/ \E c \in EngineCallers, tier \in UpdatedTiers, cfg \in TierUpdates :
         SolUpdateTier(c, tier, cfg[2], cfg[1])
    \/ \E c \in EngineCallers, k \in BurnKeys, tier \in BurnTiers, e \in BurnEfforts :
         SolBurnForPerformance(c, k[1], k[2], tier, e)
    \/ \E c \in EngineCallers, tier \in UpdatedTiers, cfg \in TierUpdates :
         MoveUpdateTier(c, tier, cfg[2] * 10, cfg[1], 0)
    \/ \E k \in BurnKeys, tier \in BurnTiers, s \in PerformanceScores,
          e \in BurnEfforts :
         MoveBurnForPerformance(k[2], k[1], tier, s, e)

SpecBurn == BurnInit /\ [][BurnNext]_vars

(***************************************************************************)
(* Tier administration alone: updateTier of DeflatinaryBurn.sol and of     *)
(* RewardTiers.sol, setTierActive, and reward_tiers::update_tier, called   *)
(* by the owner and by another account, for tiers inside and outside 0..7. *)
(***************************************************************************)
TierArgs == {0, 7, 8}
\* <<multiplier, baseReward>>
TierSettings == { <<20, 100>>, <<15, 7>> }
MinScores == {50}

TiersNext ==
    \/ \E c \in EngineCallers, tier \in TierArgs, cfg \in TierSettings :
         SolUpdateTier(c, tier, cfg[1], cfg[2])
    \/ \E c \in EngineCallers, tier \in TierArgs, cfg \in TierSettings :
         RewardTiersUpdateTier(c, tier, cfg[1], cfg[2])
    \/ \E c \in EngineCallers, tier \in TierArgs \ {0}, b \in BOOLEAN :
         RewardTiersSetTierActive(c, tier, b)
    \/ \E c \in EngineCallers, tier \in TierArgs, cfg \in TierSettings,
          min \in MinScores :
         MoveUpdateTier(c, tier, cfg[1], cfg[2], min)

SpecTiers == BurnInit /\ [][TiersNext]_vars

(***************************************************************************)
(* The token alone: mint, burn, burnFrom, transfer and approve of          *)
(* SPPToken.sol, mint, burn and transfer of spp_token, and                 *)
(* burn_for_performance, which burns and mints through spp_token.  The     *)
(* amounts minted, burned and held by an account other than the owner are  *)
(* kept within MaxTokens.                                                  *)
(***************************************************************************)
TokenAmounts == {2, 3}
ApprovedAmounts == {3}
TokenCallers == {"owner", "player1"}
TokenSpenders == {"oracle", BurnEngine}
BurnContracts == {BurnEngine}
TokenBurnKeys == { <<"m1", "owner">> }

\* account can receive amount more
CanHold(balance, account, amount) ==
    account = Owner \/ balance[account] + amount <= MaxTokens

TokenNext ==
    \/ \E c \in TokenCallers, b \in BurnContracts : SolSetBurnContract(c, b)
    \/ \E c \in TokenCallers, a \in ApprovedAmounts : SolTokenApprove(c, a)
    \/ \E c \in TokenCallers : \E to \in TokenCallers \ {c}, a \in TokenAmounts :
         CanHold(erc20_balances, to, a) /\ SolTokenTransfer(c, to, a)
    \/ \E c \in TokenCallers, to \in TokenCallers, a \in TokenAmounts :
         /\ mintedAmount + a <= MaxTokens
         /\ CanHold(erc20_balances, to, a)
         /\ SolTokenMint(c, to, a)
    \/ \E c \in TokenCallers, a \in TokenAmounts :
         burnedAmount + a <= MaxTokens /\ SolTokenBurn(c, a)
    \/ \E c \in TokenSpenders, account \in TokenCallers, a \in TokenAmounts :
         burnedAmount + a <= MaxTokens /\ SolTokenBurnFrom(c, account, a)
    \/ \E c \in TokenCallers, to \in TokenCallers, a \in TokenAmounts :
         /\ mintedAmount + a <= MaxTokens
         /\ CanHold(primary_store, to, a)
         /\ MoveTokenMint(c, to, a)
    \/ \E c \in TokenCallers, a \in TokenAmounts :
         burnedAmount + a <= MaxTokens /\ MoveTokenBurn(c, a)
    \/ \E c \in TokenCallers : \E to \in TokenCallers \ {c}, a \in TokenAmounts :
         CanHold(primary_store, to, a) /\ MoveTokenTransfer(c, to, a)
    \/ \E k \in TokenBurnKeys, tier \in BurnTiers, s \in PerformanceScores,
          e \in BurnEfforts :
         MoveBurnForPerformance(k[2], k[1], tier, s, e)

SpecToken == BurnInit /\ [][TokenNext]_vars

(***************************************************************************)
(* Validator SDKs: executeBurn(matchId, player) of BNBValidatorSDK (driving *)
(* the Solidity contracts) and of AptosValidatorSDK (driving the Move      *)
(* modules).  A request runs one awaited call per step; requests[r].pc is  *)
(* the call it makes next and requests[r].result the error it threw, "ok"  *)
(* when it returned a BurnResult, "-" while it runs.                       *)
(***************************************************************************)
RequestIds == {1, 2}
SdkWallets == {"owner", "oracle"}

NoPerfData == [rewardTier |-> 0, performanceScore |-> 0, effortScore |-> 0]

NewRequest(matchId, player) ==
    [matchId |-> matchId, player |-> player, pc |-> "start",
     perfData |-> NoPerfData, burnAmount |-> 0, rewardAmount |-> 0, result |-> "-"]

\* the request's catch block: it ends with the error
Throw(r, e) == requests' = [requests EXCEPT ![r].pc = "done", ![r].result = e]

Goto(r, pc) == requests' = [requests EXCEPT ![r].pc = pc]

SdkReadOnly == UNCHANGED <<commonVars, oracleVars, engineVars, calcVars, registryVars, adapterVars, wallet>>

\* executeBurn going on with whatever getPerformance returned, null included
BnbGetPerformance_NoNullCheck(r) ==
    LET req == requests[r]
        perf == performances[<<req.matchId, req.player>>] IN
    /\ ledger = "sol"
    /\ req.pc = "start"
    /\ requests' = [requests EXCEPT
            ![r].pc = "calculateBurn",
            ![r].perfData = [rewardTier |-> perf.tier, performanceScore |-> 0,
                             effortScore |-> perf.effortScore]]
    /\ SdkReadOnly

\* BNBValidatorSDK.executeBurn: const perfData = await this.getPerformance(..)
BnbGetPerformance(r) ==
    LET req == requests[r]
        perf == performances[<<req.matchId, req.player>>] IN
    /\ ledger = "sol"
    /\ req.pc = "start"
    /\ IF ~perf.verified
       THEN Throw(r, "Performance not found")
       ELSE requests' = [requests EXCEPT
                ![r].pc = "calculateBurn",
                ![r].perfData = [rewardTier |-> perf.tier, performanceScore |-> 0,
                                 effortScore |-> perf.effortScore]]
    /\ SdkReadOnly

\* await this.burnEngineContract.calculateBurn(tier, performanceScore, effortScore)
BnbCalculateBurn(r) ==
    LET req == requests[r]
        err == calculateRewardError(req.perfData.rewardTier, req.perfData.effortScore)
        rewardAmount == calculateReward(req.perfData.rewardTier, req.perfData.effortScore)
    IN
    /\ ledger = "sol"
    /\ req.pc = "calculateBurn"
    /\ IF err # "ok"
       THEN Throw(r, err)
       ELSE requests' = [requests EXCEPT
                ![r].pc = "balanceOf",
                ![r].rewardAmount = rewardAmount,
                ![r].burnAmount = rewardAmount \div 10]
    /\ SdkReadOnly

\* const balance = await this.tokenContract.balanceOf(this.wallet.address)
BnbCheckBalance(r) ==
    LET req == requests[r] IN
    /\ ledger = "sol"
    /\ req.pc = "balanceOf"
    /\ IF erc20_balances[wallet] < req.burnAmount
       THEN Throw(r, "INSUFFICIENT_BALANCE")
       ELSE Goto(r, "allowance")
    /\ SdkReadOnly

\* allowance(wallet, burnEngine), and approve(burnEngine, MaxUint256) when it
\* is below the burn amount
BnbEnsureAllowance(r) ==
    LET req == requests[r] IN
    /\ ledger = "sol"
    /\ req.pc = "allowance"
    /\ Goto(r, "estimateGas")
    /\ IF erc20_allowances[wallet] < req.burnAmount
       THEN \E t \in BlockTimes :
              /\ now' = t
              /\ outcome' = Outcome("approve", wallet, "-", "-", "ok")
              /\ erc20_allowances' = [erc20_allowances EXCEPT ![wallet] = MaxUint256]
       ELSE UNCHANGED <<now, outcome, erc20_allowances>>
    /\ UNCHANGED <<ledger, oracleVars, solBurnVars, rewardTiersVars, erc20_balances,
                   erc20_totalSupply, tokenTotalBurned, burnContract,
                   moveBurnVars, moveTokenVars, tokenHistoryVars, calcVars, registryVars, adapterVars, wallet>>

\* await this.burnEngineContract.executeBurn.estimateGas(..): the node runs the
\* call on the current state and reports its revert
BnbEstimateGas(r) ==
    LET req == requests[r]
        err == SolBurnError(wallet, <<req.matchId, req.player>>,
                            req.perfData.rewardTier, req.perfData.effortScore)
    IN
    /\ ledger = "sol"
    /\ req.pc = "estimateGas"
    /\ IF err # "ok" THEN Throw(r, err) ELSE Goto(r, "executeBurn")
    /\ SdkReadOnly

\* executeBurn refusing a match that is not finalized yet
BnbSubmitBurn_FinalizedOnly(r) ==
    LET req == requests[r] IN
    /\ req.pc = "executeBurn"
    /\ IF ~matches[req.matchId].isFinalized
       THEN Throw(r, "Match not finalized") /\ SdkReadOnly
       ELSE /\ burnForPerformance(wallet, req.matchId, req.player,
                                  req.perfData.rewardTier, req.perfData.effortScore)
            /\ requests' = [requests EXCEPT ![r].pc = "done",
                                            ![r].result = outcome'.err]
            /\ UNCHANGED wallet

\* const tx = await this.burnEngineContract.executeBurn(..); await tx.wait():
\* the transaction is mined, or reverts and tx.wait() throws
BnbSubmitBurn(r) ==
    LET req == requests[r] IN
    /\ req.pc = "executeBurn"
    /\ burnForPerformance(wallet, req.matchId, req.player,
                          req.perfData.rewardTier, req.perfData.effortScore)
    /\ requests' = [requests EXCEPT ![r].pc = "done", ![r].result = outcome'.err]
    /\ UNCHANGED wallet

\* AptosValidatorSDK.executeBurn: const matchData = await this.getMatch(matchId)
AptosGetMatch(r) ==
    LET req == requests[r] IN
    /\ ledger = "move"
    /\ req.pc = "start"
    /\ IF ~TableContains(match_store, req.matchId)
       THEN Throw(r, "Match not found")
       ELSE Goto(r, "getPerformance")
    /\ SdkReadOnly

\* const perfData = await this.getPerformance(matchId, player)
AptosGetPerformance(r) ==
    LET req == requests[r]
        perf_key == <<req.matchId, req.player>> IN
    /\ ledger = "move"
    /\ req.pc = "getPerformance"
    /\ IF ~TableContains(performance_store, perf_key)
       THEN Throw(r, "Performance data not found")
       ELSE requests' = [requests EXCEPT
                ![r].pc = "executeBurn",
                ![r].perfData =
                    [rewardTier |-> performance_store[perf_key].reward_tier,
                     performanceScore |-> performance_store[perf_key].performance_score,
                     effortScore |-> performance_store[perf_key].effort_score]]
    /\ SdkReadOnly

\* signAndSubmitTransaction(burn_for_performance) signed by the SDK's account,
\* then waitForTransaction, which throws when the transaction aborted
AptosSubmitBurn(r) ==
    LET req == requests[r] IN
    /\ req.pc = "executeBurn"
    /\ burn_for_performance(wallet, req.matchId, req.perfData.rewardTier,
                            req.perfData.performanceScore, req.perfData.effortScore)
    /\ requests' = [requests EXCEPT ![r].pc = "done", ![r].result = outcome'.err]
    /\ UNCHANGED wallet

SdkInit ==
    /\ ledger \in Ledgers
    /\ now = 1
    /\ outcome = Outcome("deploy", Owner, "-", "-", "ok")
    /\ SolOracleInit /\ MoveOracleInit
    /\ EngineInit
    /\ CalcIdle /\ RegistryInit /\ AdapterInit
    /\ wallet \in SdkWallets
    /\ \E m \in MatchIds, p \in Players :
         requests = [r \in RequestIds |-> NewRequest(m, p)]

SdkNext ==
    \/ \E m \in MatchIds : SolRegisterMatch(Owner, m)
    \/ \E m \in MatchIds, p \in Players, in \in SolPerfInputs :
         SolRecordPerformance(Owner, m, p, in)
    \/ \E m \in MatchIds, s \in Sports : MoveRegisterMatch(Owner, m, s)
    \/ \E m \in MatchIds, p \in Players, in \in MovePerfInputs :
         MoveRecordPerformance(Owner, m, p, in)
    \/ \E m \in MatchIds, n \in PlayerCounts : SolFinalizeMatch(Owner, m, "h1", n)
    \/ \E m \in MatchIds : MoveFinalizeMatch(Owner, m, 1, "h1")
    \/ \E r \in RequestIds :
         \/ BnbGetPerformance(r)
         \/ BnbCalculateBurn(r)
         \/ BnbCheckBalance(r)
         \/ BnbEnsureAllowance(r)
         \/ BnbEstimateGas(r)
         \/ BnbSubmitBurn(r)
         \/ AptosGetMatch(r)
         \/ AptosGetPerformance(r)
         \/ AptosSubmitBurn(r)

SpecSdk == SdkInit /\ [][SdkNext]_vars

(***************************************************************************)
(* The match / performance state machine of both ledgers.                  *)
(***************************************************************************)
OracleInit ==
    /\ ledger \in Ledgers
    /\ now = 1
    /\ outcome = Outcome("deploy", Owner, "-", "-", "ok")
    /\ SolOracleInit
    /\ MoveOracleInit
    /\ EngineInit
    /\ CalcIdle /\ SdkIdle /\ RegistryInit /\ AdapterInit

OracleNext ==
    \/ \E c \in Accounts, b \in BOOLEAN : SolSetOracleAuthorization(c, "oracle", b)
    \/ \E c \in Accounts, m \in MatchIds : SolRegisterMatch(c, m)
    \/ \E c \in Accounts, m \in MatchIds, h \in DataHashes, n \in PlayerCounts :
         SolFinalizeMatch(c, m, h, n)
    \/ \E c \in Accounts, m \in MatchIds, p \in Players, in \in SolPerfInputs :
         SolRecordPerformance(c, m, p, in)
    \/ \E c \in Accounts : MoveAddOracle(c, "oracle")
    \/ \E c \in Accounts, m \in MatchIds, s \in Sports : MoveRegisterMatch(c, m, s)
    \/ \E c \in Accounts, m \in MatchIds, w \in Winners, h \in DataHashes :
         MoveFinalizeMatch(c, m, w, h)
    \/ \E c \in Accounts, m \in MatchIds, p \in Players, in \in MovePerfInputs :
         MoveRecordPerformance(c, m, p, in)
    \/ \E c \in Accounts, m \in MatchIds, p \in Players, in \in MoveCricketInputs :
         MoveRecordCricketPerformance(c, m, p, in)

SpecOracle == OracleInit /\ [][OracleNext]_vars

(***************************************************************************)
(* Ledger-independent views of the oracle state.                           *)
(***************************************************************************)
IsSol == ledger = "sol"

Authorized(c) == IF IsSol THEN onlyAuthorized(c) ELSE MoveIsAuthorized(c)

MatchExists(m) ==
    IF IsSol THEN matches[m].registeredAt # 0 ELSE TableContains(match_store, m)

MatchFinalized(m) ==
    IF IsSol THEN matches[m].isFinalized
    ELSE TableContains(match_store, m) /\ match_store[m].status = STATUS_FINALIZED

FinalizedAt(m) ==
    IF IsSol THEN matches[m].finalizedAt
    ELSE IF TableContains(match_store, m) THEN match_store[m].finalized_at ELSE 0

\* the stored match entry, as a set: empty when there is none
MatchView(m) ==
    IF IsSol THEN {matches[m]}
    ELSE IF TableContains(match_store, m) THEN {match_store[m]} ELSE {}

MatchCount == IF IsSol THEN totalMatches ELSE Cardinality(DOMAIN match_store)

\* every stored performance record of match m
PerfView(m) ==
    IF IsSol THEN { <<p, performances[<<m, p>>]>> : p \in Players }
    ELSE { <<k, performance_store[k]>> :
             k \in { j \in DOMAIN performance_store : j[1] = m } }
         \cup { <<k, cricket_performance_store[k]>> :
             k \in { j \in DOMAIN cricket_performance_store : j[1] = m } }

HasPerformance(m) ==
    IF IsSol THEN \E p \in Players : performances[<<m, p>>].verified
    ELSE \E k \in (DOMAIN performance_store) \cup (DOMAIN cricket_performance_store) :
            k[1] = m

IsAlreadyFinalizedError(e) ==
    e \in {"MatchAlreadyFinalized", "E_MATCH_ALREADY_FINALIZED"}
IsDuplicateMatchError(e) == e \in {"MatchAlreadyExists", "E_MATCH_ALREADY_EXISTS"}
IsNotFoundError(e) == e \in {"MatchNotFound", "E_MATCH_NOT_FOUND"}
IsNotAuthorizedError(e) == e \in {"Not authorized", "E_NOT_AUTHORIZED"}

RecordOps == {"recordPerformance", "recordCricketPerformance"}

\* this step is the transaction op on match m
TxOn(op, m) == outcome'.op = op /\ outcome'.id = m

(***************************************************************************)
(* C4.  After finalizeMatch(m) has succeeded, every recordPerformance /    *)
(* recordCricketPerformance for m is rejected (with the already-finalized  *)
(* error when the caller passes access control) and no performance record  *)
(* of m is created or changed, on both ledgers.                            *)
(* performance_oracle.move has no such check: TLC finds this violated.     *)
(***************************************************************************)
C4_RecordAfterFinalizeRejected ==
    [][\A m \in MatchIds :
         (MatchFinalized(m) /\ outcome'.op \in RecordOps /\ outcome'.id = m)
            => /\ outcome'.err # "ok"
               /\ Authorized(outcome'.caller)
                     => IsAlreadyFinalizedError(outcome'.err)
               /\ PerfView(m)' = PerfView(m)]_vars

(***************************************************************************)
(* C5.  finalizeMatch is terminal: a finalizeMatch on a finalized match is *)
(* rejected, with the already-finalized error for every caller that passes *)
(* access control, and the stored match (winner, dataHash, player count,   *)
(* finalizedAt) stays as the first call wrote it.                          *)
(***************************************************************************)
C5_SecondFinalizeFails ==
    [][\A m \in MatchIds :
         (MatchFinalized(m) /\ TxOn("finalizeMatch", m))
            => /\ outcome'.err # "ok"
               /\ Authorized(outcome'.caller)
                     => IsAlreadyFinalizedError(outcome'.err)
               /\ MatchView(m)' = MatchView(m)]_vars

\* a second finalizeMatch was attempted and refused
C5_Witness ==
    \E m \in MatchIds :
        /\ MatchFinalized(m)
        /\ outcome.op = "finalizeMatch" /\ outcome.id = m
        /\ IsAlreadyFinalizedError(outcome.err)

(***************************************************************************)
(* C6.  registerMatch succeeds only when no entry exists for the matchId:  *)
(* on an existing match (REGISTERED or FINALIZED) it is rejected, with the *)
(* duplicate-match error for every caller that passes access control, and  *)
(* the stored match and the match count are unchanged.                     *)
(***************************************************************************)
C6_SecondRegisterFails ==
    [][\A m \in MatchIds :
         TxOn("registerMatch", m)
            => /\ outcome'.err = "ok" => ~MatchExists(m)
               /\ MatchExists(m)
                     => /\ outcome'.err # "ok"
                        /\ Authorized(outcome'.caller)
                              => IsDuplicateMatchError(outcome'.err)
                        /\ MatchView(m)' = MatchView(m)
                        /\ MatchCount' = MatchCount]_vars

\* a registerMatch on a finalized match was refused as a duplicate
C6_Witness ==
    \E m \in MatchIds :
        /\ MatchFinalized(m)
        /\ outcome.op = "registerMatch" /\ outcome.id = m
        /\ IsDuplicateMatchError(outcome.err)

(***************************************************************************)
(* C7.  A match has finalizedAt set (non-zero) iff it is FINALIZED, and a  *)
(* FINALIZED match is never modified again: no later step changes its      *)
(* status, winner, dataHash, player count or finalizedAt.                  *)
(***************************************************************************)
C7_FinalizedIsImmutable ==
    /\ [](\A m \in MatchIds : (FinalizedAt(m) # 0) <=> MatchFinalized(m))
    /\ [][\A m \in MatchIds :
            MatchFinalized(m) => MatchView(m)' = MatchView(m)]_vars

\* a finalized match that later operations (a second finalizeMatch with
\* other arguments) have been tried on
C7_Witness ==
    \E m \in MatchIds :
        /\ MatchFinalized(m) /\ FinalizedAt(m) # 0
        /\ outcome.id = m /\ outcome.err # "ok"
        /\ outcome.op \in {"finalizeMatch", "registerMatch"}

(***************************************************************************)
(* C8.  Every stored performance record and every finalized match belongs  *)
(* to a registered match: finalizeMatch and recordPerformance on a matchId *)
(* with no entry are rejected, with the not-found error for every caller   *)
(* that passes access control, and create no entry.                        *)
(***************************************************************************)
C8_OnlyRegisteredMatches ==
    /\ [](\A m \in MatchIds :
            (HasPerformance(m) \/ MatchFinalized(m) \/ FinalizedAt(m) # 0)
               => MatchExists(m))
    /\ [][\A m \in MatchIds :
            (~MatchExists(m) /\ outcome'.id = m
               /\ outcome'.op \in RecordOps \cup {"finalizeMatch"})
               => /\ outcome'.err # "ok"
                  /\ Authorized(outcome'.caller) => IsNotFoundError(outcome'.err)
                  /\ MatchView(m)' = {} \/ MatchView(m)' = {ZeroMatch}
                  /\ ~HasPerformance(m)']_vars

\* a call on an unregistered match was refused with the not-found error
C8_Witness ==
    \E m \in MatchIds :
        /\ ~MatchExists(m)
        /\ outcome.id = m /\ IsNotFoundError(outcome.err)
        /\ outcome.op \in RecordOps \cup {"finalizeMatch"}

(***************************************************************************)
(* What a client can read from the burn engine of the run's ledger.        *)
(***************************************************************************)
\* getBurnTransaction(..).executed / the key is in burn_records
BurnExecuted(k) ==
    IF IsSol THEN burnTransactions[k].executed ELSE TableContains(burn_records, k)

\* the burn record of key k, as the set of its records (empty when there is none)
BurnRecordView(k) ==
    IF ~BurnExecuted(k) THEN {}
    ELSE IF IsSol
         THEN {[burn |-> burnTransactions[k].burnAmount,
                reward |-> burnTransactions[k].rewardAmount,
                tier |-> burnTransactions[k].tier,
                effort |-> burnTransactions[k].effortScore,
                timestamp |-> burnTransactions[k].timestamp]}
         ELSE {[burn |-> burn_records[k].burn_amount,
                reward |-> burn_records[k].reward_amount,
                tier |-> burn_records[k].tier,
                effort |-> burn_records[k].effort_score,
                timestamp |-> burn_records[k].timestamp]}

\* totalBurned() / total_burned(), totalRewards() / total_rewards()
TotalBurned == IF IsSol THEN totalBurnedAmount ELSE total_burned
TotalRewards == IF IsSol THEN totalRewardsDistributed ELSE total_rewards

\* getPlayerRewards / get_player_rewards, getPlayerBurned / get_player_burned
PlayerRewards(p) ==
    IF IsSol THEN playerTotalRewards[p]
    ELSE IF TableContains(player_rewards, p) THEN player_rewards[p] ELSE 0
PlayerBurned(p) ==
    IF IsSol THEN playerTotalBurned[p]
    ELSE IF TableContains(player_burned, p) THEN player_burned[p] ELSE 0

\* everything a burn writes: records, totals, per-player totals and, on Move,
\* the token balances and supply statistics it moves
EngineView ==
    << [k \in BurnKeys |-> BurnRecordView(k)], TotalBurned, TotalRewards,
       [p \in BurnPlayers |-> PlayerRewards(p)],
       [p \in BurnPlayers |-> PlayerBurned(p)],
       IF IsSol THEN << >> ELSE <<primary_store, token_stats>> >>

RECURSIVE SumOfRecords(_, _)
\* the sum of field f ("reward" or "burn") over the burn records of the keys in S
SumOfRecords(S, f) ==
    IF S = {} THEN 0
    ELSE LET k == CHOOSE x \in S : TRUE
             r == BurnRecordView(k)
             amount == IF r = {} THEN 0
                       ELSE LET rec == CHOOSE x \in r : TRUE
                            IN IF f = "reward" THEN rec.reward ELSE rec.burn
         IN amount + SumOfRecords(S \ {k}, f)

IsDuplicateBurnError(e) == e \in {"BurnAlreadyExecuted", "E_ALREADY_BURNED"}

\* this step is a burnForPerformance / burn_for_performance transaction on key k
BurnTxOn(k) ==
    /\ outcome'.op = "burnForPerformance"
    /\ outcome'.id = k[1]
    /\ outcome'.player = k[2]

\* the checks the code makes before it looks the key up: the caller on
\* Solidity (onlyOracle), the tier on Move
PassesEarlierChecks ==
    IF IsSol THEN onlyOracle(outcome'.caller) ELSE outcome'.err # "E_INVALID_TIER"

BurnRecordCount ==
    IF IsSol
    THEN Cardinality({k \in DOMAIN burnTransactions : burnTransactions[k].executed})
    ELSE Cardinality(DOMAIN burn_records)

BurnWinners == {r \in RequestIds : requests[r].result = "ok"}
BurnLosers == {r \in RequestIds : IsDuplicateBurnError(requests[r].result)}
AllRequestsDone == \A r \in RequestIds : requests[r].pc = "done"

C3_RejectedBurnChangesNothing ==
    [][outcome'.op = "burnForPerformance"
         => /\ outcome'.err # "ok" => EngineView' = EngineView
            /\ \A k \in BurnKeys :
                 (BurnTxOn(k) /\ BurnExecuted(k))
                    => outcome'.err # "ok" /\ EngineView' = EngineView]_vars

\* a burn was refused while the engine held non-zero totals for its player
C3_Witness ==
    /\ outcome.op = "burnForPerformance"
    /\ outcome.err # "ok"
    /\ outcome.player \in BurnPlayers
    /\ PlayerRewards(outcome.player) > 0
    /\ PlayerBurned(outcome.player) > 0

(***************************************************************************)
(* C9.  For every tier 0..7, effort score 0..100 and tier parameters,      *)
(* calculateReward returns one floor of the exact product                  *)
(* baseReward * effortScore / 100 * multiplier / multiplierScale, with     *)
(* scale 10 on Solidity and 100 on Move.                                   *)
(***************************************************************************)
ExactReward(baseReward, multiplier, multiplierScale, effortScore) ==
    (baseReward * effortScore * multiplier) \div (100 * multiplierScale)

C9_RewardIsOneFloor ==
    (calcTier \in TierIds /\ calcEffort \in 0 .. 100)
       => /\ solReward # NoResult
               => solReward =
                     [err |-> "ok",
                      value |-> ExactReward(baseRewards[calcTier],
                                            burnMultipliers[calcTier], 10, calcEffort)]
          /\ moveReward # NoResult
               => moveReward =
                     [err |-> "ok",
                      value |-> ExactReward(tiers_state[calcTier].base_reward,
                                            tiers_state[calcTier].multiplier, 100,
                                            calcEffort)]

(***************************************************************************)
(* C10.  Cross-ledger equivalence: for every tier 0..7, effort score       *)
(* 0..100 and identical tier parameters (same base reward, multiplier      *)
(* written at scale 10 on Solidity and 100 on Move), both ledgers return   *)
(* the same reward and the same burn amount.                               *)
(***************************************************************************)
C10_LedgersComputeSameReward ==
    (/\ calcTier \in TierIds /\ calcEffort \in 0 .. 100
     /\ solReward # NoResult /\ moveReward # NoResult
     /\ baseRewards[calcTier] = tiers_state[calcTier].base_reward
     /\ burnMultipliers[calcTier] * 10 = tiers_state[calcTier].multiplier)
       => /\ solReward.err = "ok" /\ moveReward.err = "ok"
          /\ solReward.value = moveReward.value
          /\ solReward.value \div 10 = moveReward.value \div 10

(***************************************************************************)
(* C11.  Every burn record satisfies burnAmount = floor(rewardAmount / 10), *)
(* and the rewardAmount a burn writes is calculateReward(tier, effortScore) *)
(* of its ledger under the tier configuration in force when the burn       *)
(* executes.                                                               *)
(***************************************************************************)
\* calculateReward / calculate_reward of the run's ledger, in the current configuration
RewardOf(tier, effort) ==
    IF IsSol THEN calculateReward(tier, effort) ELSE calculate_reward(tier, effort)

C11_BurnIsTenthOfReward ==
    /\ [](\A k \in BurnKeys : \A r \in BurnRecordView(k) : r.burn = r.reward \div 10)
    /\ [][\A k \in BurnKeys :
            (~BurnExecuted(k) /\ BurnExecuted(k)')
               => \A r \in BurnRecordView(k)' :
                     /\ r.reward = RewardOf(r.tier, r.effort)
                     /\ r.burn = r.reward \div 10]_vars

\* a burn executed under a changed tier configuration, next to one executed
\* under the deployed configuration
C11_Witness ==
    \E k1, k2 \in BurnKeys :
        \E r1 \in BurnRecordView(k1), r2 \in BurnRecordView(k2) :
            /\ r1.tier = r2.tier /\ r1.effort = r2.effort
            /\ r1.reward > r2.reward /\ r2.reward > 0
            /\ r1.burn = r1.reward \div 10 /\ r1.burn > 0

(***************************************************************************)
(* C12.  Per-player 10% accounting: in every reachable state and for every *)
(* player, getPlayerBurned(player) = getPlayerRewards(player) / 10 in      *)
(* integer division.                                                       *)
(***************************************************************************)
C12_PlayerBurnedIsTenthOfRewards ==
    \A p \in BurnPlayers : PlayerBurned(p) = PlayerRewards(p) \div 10

\* the burn keys of player p
KeysOf(p) == {k \in BurnKeys : k[2] = p}

\* C12 as it holds: a player's totals are the sums over the player's burn
\* records, each record burning floor(reward / 10); so getPlayerBurned is at
\* most getPlayerRewards / 10, and equal to it when every reward of the
\* player is a multiple of 10 (as with the deployed tier configuration).
C12_PlayerTotalsAreSumsOfRecords ==
    \A p \in BurnPlayers :
        /\ PlayerRewards(p) = SumOfRecords(KeysOf(p), "reward")
        /\ PlayerBurned(p) = SumOfRecords(KeysOf(p), "burn")
        /\ PlayerBurned(p) <= PlayerRewards(p) \div 10
        /\ (\A k \in KeysOf(p) : \A r \in BurnRecordView(k) : r.reward % 10 = 0)
              => PlayerBurned(p) = PlayerRewards(p) \div 10

\* a player with two burns whose burned total is below a tenth of the rewards
C12_Witness ==
    \E p \in BurnPlayers :
        /\ \E k1, k2 \in KeysOf(p) :
              k1 # k2 /\ BurnExecuted(k1) /\ BurnExecuted(k2)
        /\ PlayerBurned(p) < PlayerRewards(p) \div 10

(***************************************************************************)
(* C13.  A burn with an effort score outside 0..100 or a tier outside 0..7 *)
(* is refused and creates no burn record: no record of the engine carries  *)
(* an out-of-range tier or effort score, on either ledger.                 *)
(***************************************************************************)
C13_NoBurnWithInvalidParameters ==
    \A k \in BurnKeys : \A r \in BurnRecordView(k) :
        r.tier \in TierIds /\ r.effort \in 0 .. 100

(***************************************************************************)
(* C14.  executeBurn(matchId, participant) requires an existing            *)
(* performance record.  The step of a request that reads the performance   *)
(* record, when there is none, ends the request with the                   *)
(* performance-not-found error without any transaction and without any     *)
(* change to the burn engine; a request gets past that read, and can       *)
(* succeed, only if the record exists.  (The Aptos SDK reads the match     *)
(* first and reports "Match not found" when the match is not registered.)  *)
(***************************************************************************)
\* getPlayerPerformance / get_performance would return a record
PerformanceExists(m, p) ==
    IF IsSol THEN performances[<<m, p>>].verified
    ELSE TableContains(performance_store, <<m, p>>)

IsPerformanceNotFound(e) ==
    e \in {"Performance not found", "Performance data not found"}

\* the pc at which a request reads the performance record
PerformanceReadPc == IF IsSol THEN "start" ELSE "getPerformance"

RequestKey(r) ==
    IF IsSol THEN <<requests[r].matchId, requests[r].player>>
    ELSE <<requests[r].matchId, wallet>>

\* the transaction step of request r
SubmitStep(r) == requests[r].pc = "executeBurn" /\ requests'[r].pc = "done"

\* what the ledger itself asks of the submitting account: onlyOracle on
\* Solidity, enough tokens to burn on Move
WalletCanBurn(r) ==
    IF IsSol THEN onlyOracle(wallet)
    ELSE primary_store[wallet] >=
           burn_amount_of(calculate_reward(requests[r].perfData.rewardTier,
                                           requests[r].perfData.effortScore))

\* some burn record of match m exists
MatchHasBurn(m) == \E a \in BurnPlayers : BurnExecuted(<<m, a>>)

IsInvalidParameterError(e) == e \in {"InvalidTier", "InvalidEffortScore"}

C16_AuthorizedOracleCanBurn ==
    [][\A k \in BurnKeys :
         (/\ IsSol
          /\ BurnTxOn(k)
          /\ outcome'.caller \in authorizedOracles
          /\ ~BurnExecuted(k))
            => /\ outcome'.err = "ok" \/ IsInvalidParameterError(outcome'.err)
               /\ outcome'.err = "ok" => burnTransactions'[k].executed]_vars

\* the transactions that write match or performance state
OracleWriteOps ==
    {"registerMatch", "finalizeMatch", "recordPerformance", "recordCricketPerformance"}

\* every player's match history (PerformanceOracle.sol only)
PlayerHistoryView == IF IsSol THEN playerMatchHistory ELSE <<>>

(***************************************************************************)
(* C17.  Only the owner/admin or an address that is authorized as oracle   *)
(* at the time of the call can register a match, record a performance or   *)
(* finalize a match.  Such a call from any other address is rejected with  *)
(* "Not authorized" / E_NOT_AUTHORIZED and changes no match, performance   *)
(* or history state; and whenever that state changes, the step is one of   *)
(* these transactions, sent by an authorized caller and successful.  An    *)
(* address the owner de-authorized is such an other address.               *)
(***************************************************************************)
C17_OnlyAuthorizedWrites ==
    [][/\ (outcome'.op \in OracleWriteOps /\ ~Authorized(outcome'.caller))
            => /\ IsNotAuthorizedError(outcome'.err)
               /\ \A m \in MatchIds :
                     MatchView(m)' = MatchView(m) /\ PerfView(m)' = PerfView(m)
               /\ MatchCount' = MatchCount
               /\ PlayerHistoryView' = PlayerHistoryView
       /\ (\/ \E m \in MatchIds :
                 MatchView(m)' # MatchView(m) \/ PerfView(m)' # PerfView(m)
            \/ MatchCount' # MatchCount
            \/ PlayerHistoryView' # PlayerHistoryView)
            => /\ outcome'.op \in OracleWriteOps
               /\ Authorized(outcome'.caller)
               /\ outcome'.err = "ok"]_vars

\* the oracle account was authorized, then de-authorized (both events were
\* emitted and it is not authorized now), and its last call was rejected
C17_Witness ==
    /\ IsSol
    /\ <<"oracle", TRUE>> \in OracleAuthorized
    /\ <<"oracle", FALSE>> \in OracleAuthorized
    /\ "oracle" \notin authorizedOracles
    /\ outcome.op \in OracleWriteOps
    /\ outcome.caller = "oracle"
    /\ IsNotAuthorizedError(outcome.err)
    /\ \E m \in MatchIds : MatchExists(m)

\* the three tier tables
TierContracts == {"DeflatinaryBurn", "RewardTiers", "reward_tiers"}

\* reading tier t of table c: burnMultipliers(t) and baseRewards(t),
\* getTierDetails(t), get_tier_config(t)
TierRead(c, t) ==
    IF c = "DeflatinaryBurn" THEN <<burnMultipliers[t], baseRewards[t]>>
    ELSE IF c = "RewardTiers" THEN getTierDetails(t)
    ELSE get_tier_config(t)

(***************************************************************************)
(* C18.  The tiers stay addressable by the ids 0..7 and are changed only   *)
(* by the owner.  Every tier table keeps an entry for each id 0..7 (with   *)
(* the id it is stored under, on Move).  An updateTier sent by a non-owner *)
(* or for a tier id above 7 is rejected and leaves every tier's multiplier *)
(* and base reward as they were; an updateTier(t, m, b) by the owner with  *)
(* t <= 7 succeeds, a read of tier t then returns (m, b) and every other   *)
(* tier reads as before (RewardTiers.getTierMultiplier returns (m, b) too  *)
(* when the tier is active); and no other step changes what a tier reads.  *)
(***************************************************************************)
C18_TiersChangedOnlyByOwner ==
    /\ [](/\ TierIds \subseteq DOMAIN burnMultipliers
          /\ TierIds \subseteq DOMAIN baseRewards
          /\ TierIds \subseteq DOMAIN tiers
          /\ DOMAIN tiers_state = TierIds
          /\ \A t \in TierIds : tiers_state[t].tier = t)
    /\ [][\A c \in TierContracts :
            /\ (outcome'.op = "updateTier" /\ outcome'.id = c)
                 => LET a == outcome'.args IN
                    IF outcome'.caller # Owner \/ a[1] > 7
                    THEN /\ outcome'.err # "ok"
                         /\ \A t \in TierIds : TierRead(c, t)' = TierRead(c, t)
                    ELSE /\ outcome'.err = "ok"
                         /\ \A t \in TierIds :
                               /\ TierRead(c, t)' =
                                     IF t = a[1] THEN <<a[2], a[3]>>
                                     ELSE TierRead(c, t)
                               /\ (c = "RewardTiers" /\ t = a[1]
                                      /\ tiers'[t].isActive)
                                     => getTierMultiplier(t)' = <<a[2], a[3]>>
            /\ (\E t \in TierIds : TierRead(c, t)' # TierRead(c, t))
                 => /\ outcome'.op = "updateTier" /\ outcome'.id = c
                    /\ outcome'.caller = Owner
                    /\ outcome'.err = "ok"]_vars

\* the owner's updateTier(7, m, b) has just succeeded on a table in which
\* tier 0 was updated before: tier 7 reads (m, b), tier 0 still reads what
\* its own update set, and the two differ
C18_Witness ==
    \E c \in TierContracts :
        /\ outcome.op = "updateTier" /\ outcome.id = c /\ outcome.err = "ok"
        /\ outcome.args[1] = 7
        /\ TierRead(c, 7) = <<outcome.args[2], outcome.args[3]>>
        /\ TierRead(c, 0) \in TierSettings
        /\ TierRead(c, 0) # TierRead(c, 7)

\* the token's supply, burn counter and balances on the ledger in use
TokenTotalSupply == IF IsSol THEN erc20_totalSupply ELSE token_stats.circulating_supply
TokenTotalBurned == IF IsSol THEN tokenTotalBurned ELSE token_stats.total_burned
TokenBalances == IF IsSol THEN erc20_balances ELSE primary_store
TokenInitialSupply == IF IsSol THEN InitialSupplyTokens * WeiPerToken ELSE INITIAL_SUPPLY

RECURSIVE SumOfBalances(_, _)
SumOfBalances(balance, S) ==
    IF S = {} THEN 0
    ELSE LET a == CHOOSE x \in S : TRUE IN balance[a] + SumOfBalances(balance, S \ {a})

(***************************************************************************)
(* C19.  Token supply accounting.  After any sequence of mint, burn,       *)
(* burnFrom and transfer (and of burn_for_performance, which burns and     *)
(* mints), the total supply is the initial supply plus the sum of the      *)
(* minted amounts minus totalBurned, totalBurned is the sum of the amounts *)
(* burned through burn and burnFrom, and the supply is the sum of the      *)
(* balances; a mint sent by anyone but the owner is rejected and changes   *)
(* no balance and no supply.                                               *)
(***************************************************************************)
C19_SupplyAccounting ==
    /\ [](/\ TokenTotalSupply = (TokenInitialSupply + mintedAmount) - TokenTotalBurned
          /\ TokenTotalBurned = burnedAmount
          /\ TokenTotalSupply = SumOfBalances(TokenBalances, Accounts))
    /\ [][(outcome'.op = "mint" /\ outcome'.caller # Owner)
            => /\ outcome'.err # "ok"
               /\ TokenBalances' = TokenBalances
               /\ TokenTotalSupply' = TokenTotalSupply
               /\ mintedAmount' = mintedAmount]_vars

\* tokens were minted and burned, an account other than the owner holds
\* some, and the last call, a mint by a non-owner, was rejected
C19_Witness ==
    /\ mintedAmount > 0
    /\ burnedAmount > 0
    /\ mintedAmount # burnedAmount
    /\ TokenBalances["player1"] > 0
    /\ outcome.op = "mint" /\ outcome.caller # Owner /\ outcome.err # "ok"

C21_RecoveredOnlyAfterUnhealthy ==
    [][\A p \in ProbeIds :
         (/\ probes[p].pc = "await" /\ probes'[p].pc = "idle"
          /\ emitted' = << <<"chain.recovered", probes[p].chainType>> >>)
            => ~entries[probes[p].entry].isHealthy]_vars
(***************************************************************************)
(* C22.  Failover selection.  getHealthyAdapter is private: it runs when   *)
(* getAdapter is asked for a registered chain that is unhealthy while      *)
(* enableFailover is set.                                                  *)
(***************************************************************************)
\* C22: a getAdapter call that fails over returns the adapter of the
\* configured primary chain when that chain is registered and healthy,
\* otherwise the adapter of the first healthy chain in the order of the
\* chains map, and throws the no-healthy-chain error when no registered chain
\* is healthy.
C22_FailoverSelection ==
    [][(/\ outcome'.op = "getAdapter"
        /\ has(outcome'.id)
        /\ ~entries[get(outcome'.id)].isHealthy
        /\ config.enableFailover)
       => LET primary == config.primaryChain
              healthy == { i \in 1 .. Len(chains) : entries[chains[i].entry].isHealthy }
              returned == outcome'.args[1]
          IN IF \E i \in healthy : chains[i].chainType = primary
             THEN /\ outcome'.err = "ok"
                  /\ \E i \in healthy :
                       chains[i].chainType = primary /\ chains[i].entry = returned
             ELSE IF healthy # {}
                  THEN /\ outcome'.err = "ok"
                       /\ \E i \in healthy :
                            /\ chains[i].entry = returned
                            /\ \A j \in healthy : i <= j
                  ELSE outcome'.err = "No healthy chains available"
      ]_vars

\* the primary chain arbitrum is unhealthy after three failed probes in a
\* row, opbnb is healthy, and getAdapter(arbitrum) has returned opbnb's adapter
C22_Witness ==
    /\ outcome.op = "getAdapter" /\ outcome.id = "arbitrum" /\ outcome.err = "ok"
    /\ config.primaryChain = "arbitrum" /\ config.enableFailover
    /\ has("arbitrum") /\ has("opbnb")
    /\ ~entries[get("arbitrum")].isHealthy
    /\ entries[get("arbitrum")].failureCount = 3
    /\ entries[get("opbnb")].isHealthy
    /\ outcome.args[1] = get("opbnb")
(***************************************************************************)
(* C23.  The health flag of an unhealthy chain after a successful probe.   *)
(***************************************************************************)
\* C23: a successful probe of an unhealthy entry resets its failureCount to 0
\* and leaves its isHealthy flag false.
C23_FlagStaysUnhealthyAfterSuccess ==
    [][\A p \in ProbeIds :
         (/\ probes[p].pc = "await" /\ probes'[p].pc = "idle"
          /\ outcome'.op = "checkChainHealth" /\ outcome'.err = "true"
          /\ ~entries[probes[p].entry].isHealthy)
            => /\ entries'[probes[p].entry].failureCount = 0
               /\ ~entries'[probes[p].entry].isHealthy]_vars
(***************************************************************************)
(* C24.  What getAdapter returns.                                          *)
(***************************************************************************)
\* C24: getAdapter(type) throws for an unregistered type; returns the
\* requested adapter while its chain's isHealthy flag is set; for an unhealthy
\* chain it returns the adapter of a healthy chain when failover is enabled
\* (and one exists), and throws, returning no adapter, when failover is
\* disabled.
C24_GetAdapterResult ==
    [][outcome'.op = "getAdapter"
       => LET chainType == outcome'.id
              returned == outcome'.args[1]
          IN IF ~has(chainType)
             THEN outcome'.err # "ok" /\ returned = 0
             ELSE IF entries[get(chainType)].isHealthy
                  THEN outcome'.err = "ok" /\ returned = get(chainType)
                  ELSE IF config.enableFailover
                       THEN (\E i \in 1 .. Len(chains) : entries[chains[i].entry].isHealthy)
                              => /\ outcome'.err = "ok"
                                 /\ returned \in DOMAIN entries
                                 /\ entries[returned].isHealthy
                       ELSE outcome'.err # "ok" /\ returned = 0
      ]_vars
(***************************************************************************)
(* C25.  Who changes a registered chain's status.                          *)
(***************************************************************************)
\* C25: while a chain type stays registered, its status (isHealthy,
\* failureCount, lastError, lastHealthCheck) changes only in a step that
\* completes a health probe of that chain type.
C25_StatusChangedOnlyByProbe ==
    [][\A chainType \in ChainTypes :
         (/\ has(chainType) /\ has(chainType)'
          /\ (entries[get(chainType)])' # entries[get(chainType)])
            => \E p \in ProbeIds :
                 /\ probes[p].pc = "await" /\ probes'[p].pc = "idle"
                 /\ probes[p].chainType = chainType]_vars
(***************************************************************************)
(* C26.  Independence of the probes of a monitoring round.                 *)
(***************************************************************************)
\* C26: a monitoring round that has reached a registered chain goes on to
\* probe it, whether or not the probes of the other chains return: the
\* round never waits for ever in front of a chain.
C26_RoundProbesEveryChain ==
    \A p \in ProbeIds, i \in 1 .. 3 :
        (rounds[p] = i) ~> (rounds[p] # i)
(***************************************************************************)
(* C27.  Exclusive section around probe and status update.                 *)
(***************************************************************************)
\* C27: no two health checks of the same chain are between their probe and
\* their status update at the same time.
C27_ProbesOfAChainExclusive ==
    \A p, q \in ProbeIds :
        (p # q /\ probes[p].pc = "await" /\ probes[q].pc = "await")
            => probes[p].chainType # probes[q].chainType
(***************************************************************************)
(* C28.  The result of waitForConfirmation.                                *)
(***************************************************************************)
\* C28: waitForConfirmation returns 'confirmed' or 'failed' only from a poll,
\* and only when the receipt of its transaction says so; it returns 'pending'
\* exactly when it finds the deadline expired, whatever the polls before ran
\* into; and the result carries the txHash it was called with.
C28_ConfirmationResult ==
    [][(wait.pc # "idle" /\ wait'.pc = "idle")
       => /\ outcome'.op = "waitForConfirmation"
          /\ outcome'.id = wait.txHash
          /\ outcome'.err \in {"confirmed", "failed", "pending"}
          /\ outcome'.err = "confirmed"
               => wait.pc = "poll" /\ receipts[wait.txHash] = "success"
          /\ outcome'.err = "failed"
               => wait.pc = "poll" /\ receipts[wait.txHash] = "reverted"
          /\ outcome'.err = "pending"
               <=> (wait.pc = "loop" /\ clock - wait.startTime >= wait.timeoutMs)
      ]_vars

\* a call with a deadline that allowed polls has returned 'pending' for a
\* transaction that has been mined and reverted: its polls came too early or
\* their lookups failed
C28_Witness ==
    /\ outcome.op = "waitForConfirmation" /\ outcome.err = "pending"
    /\ outcome.args[1] = 2
    /\ receipts[outcome.id] = "reverted"
(***************************************************************************)
(* OpBNBAdapter over BaseChainAdapter: initialize, the lifecycle           *)
(* operations and the read-only queries.  The adapter's chain is the       *)
(* Solidity ledger; sdkOk tells whether the SDK call returned or threw.    *)
(***************************************************************************)
\* the address fields validateConfig asks for, with the endpoint
RequiredFields == {"rpcUrl", "token", "oracle", "burnEngine", "rewardTiers"}

\* a complete configuration, the configurations that lack one required
\* field, and one without the contractAddresses object
TestConfigs ==
    {ConfigFields} \cup { ConfigFields \ {f} : f \in RequiredFields } \cup {{"rpcUrl"}}

\* initialize(config)
Initialize(chainConfig) ==
    /\ IF validateConfig(chainConfig) = "ok"
       THEN initialized' = TRUE
       ELSE UNCHANGED initialized
    /\ outcome' = [Outcome("adapter.initialize", "-", "-", "-", validateConfig(chainConfig))
                     EXCEPT !.args = <<chainConfig>>]
    /\ UNCHANGED <<receipts, wait, clock>>
    /\ AdapterUnchanged

\* ensureInitialized(): "ok" or the message of the error thrown
ensureInitialized ==
    IF initialized THEN "ok" ELSE "Adapter not initialized. Call initialize() first."

\* the operations that submit a transaction and wait for its confirmation
LifecycleOps ==
    {"adapter.registerMatch", "adapter.finalizeMatch", "adapter.recordPerformance",
     "adapter.recordCricketPerformance"}

\* waitForConfirmation(txHash, 10000), in sleeps of 2000 ms
ConfirmationSleeps == 5

\* registerMatch / finalizeMatch / recordPerformance /
\* recordCricketPerformance up to the call of waitForConfirmation
SubmitAndWait(op, txHash, sdkOk) ==
    /\ wait.pc = "idle"
    /\ IF ensureInitialized # "ok"
       THEN /\ outcome' = Outcome(op, "-", "-", "-", ensureInitialized)
            /\ UNCHANGED wait
       ELSE IF ~sdkOk
            THEN /\ outcome' = Outcome(op, "-", "-", "-", "failed")
                 /\ UNCHANGED wait
            ELSE /\ wait' = [pc |-> "loop", txHash |-> txHash, startTime |-> clock,
                             timeoutMs |-> ConfirmationSleeps]
                 /\ UNCHANGED outcome
    /\ UNCHANGED <<initialized, receipts, clock>>
    /\ AdapterUnchanged

\* executeBurn(params)
ExecuteBurn(sdkOk) ==
    /\ outcome' = Outcome("adapter.executeBurn", "-", "-", "-",
                          IF ensureInitialized # "ok" THEN ensureInitialized
                          ELSE IF sdkOk THEN "ok" ELSE "failed")
    /\ UNCHANGED adapterVars
    /\ AdapterUnchanged

\* the outcome of a read-only query: the error thrown, or "ok" and the value
\* returned
QueryOutcome(op, m, player, result) ==
    IF ensureInitialized # "ok"
    THEN Outcome(op, "-", m, player, ensureInitialized)
    ELSE [Outcome(op, "-", m, player, "ok") EXCEPT !.args = <<result>>]

\* getMatch(matchId): null, or the match data
GetMatch(m, sdkOk) ==
    /\ ledger = "sol"
    /\ outcome' = QueryOutcome("adapter.getMatch", m, "-",
                               IF sdkOk /\ matches[m].registeredAt # 0
                               THEN "data" ELSE "null")
    /\ UNCHANGED adapterVars
    /\ AdapterUnchanged

\* getPerformance(matchId, player): null, or the performance data
GetPerformance(m, player, sdkOk) ==
    /\ ledger = "sol"
    /\ outcome' = QueryOutcome("adapter.getPerformance", m, player,
                               IF sdkOk /\ performances[<<m, player>>].verified
                               THEN "data" ELSE "null")
    /\ UNCHANGED adapterVars
    /\ AdapterUnchanged

\* getTokenBalance(address): the balance, 0 for an address that
\* validateAddress rejects or when sdk.getBalance throws
GetTokenBalance(address, sdkOk) ==
    /\ ledger = "sol"
    /\ outcome' = QueryOutcome("adapter.getTokenBalance", "-", address,
                               IF sdkOk /\ address \in DOMAIN erc20_balances
                               THEN erc20_balances[address] ELSE 0)
    /\ UNCHANGED adapterVars
    /\ AdapterUnchanged

AdapterSpecInit ==
    /\ ledger = "sol"
    /\ now = 1
    /\ outcome = Outcome("deploy", "-", "-", "-", "ok")
    /\ SolOracleInit /\ MoveOracleInit
    /\ EngineInit
    /\ CalcIdle /\ SdkIdle /\ RegistryInit /\ AdapterInit

\* an adapter is initialized with complete and incomplete configurations and
\* its lifecycle operations are called, before and after, beside a registry
\* that registers its own adapters
AdapterNext ==
    \/ \E chainConfig \in TestConfigs : Initialize(chainConfig)
    \/ \E chainConfig \in TestConfigs : RegisterChain("opbnb", chainConfig)
    \/ \E op \in LifecycleOps, sdkOk \in BOOLEAN : SubmitAndWait(op, "0xa", sdkOk)
    \/ \E sdkOk \in BOOLEAN : ExecuteBurn(sdkOk)
    \/ WaitLoop
    \/ \E rpcOk \in BOOLEAN : WaitPolled(rpcOk)
    \/ WaitSleep
    \/ \E status \in {"success", "reverted"} : Mine("0xa", status)

SpecAdapter == AdapterSpecInit /\ [][AdapterNext]_vars

\* an adapter is queried, before and after it is initialized, while matches
\* and performances are written to its chain
QueryNext ==
    \/ \E chainConfig \in {ConfigFields, ConfigFields \ {"token"}} : Initialize(chainConfig)
    \/ \E m \in MatchIds : SolRegisterMatch(Owner, m)
    \/ \E m \in MatchIds, player \in Players :
         SolRecordPerformance(Owner, m, player, <<75, 2, 50, 24, 0, 85>>)
    \/ \E m \in MatchIds, sdkOk \in BOOLEAN : GetMatch(m, sdkOk)
    \/ \E m \in MatchIds, player \in Players, sdkOk \in BOOLEAN :
         GetPerformance(m, player, sdkOk)
    \/ \E address \in {"owner", "player1", "not an address"}, sdkOk \in BOOLEAN :
         GetTokenBalance(address, sdkOk)

SpecQuery == AdapterSpecInit /\ [][QueryNext]_vars

(***************************************************************************)
(* C29.  initialize with an incomplete configuration.                      *)
(***************************************************************************)
\* C29: initialize(config) throws, and leaves the initialized flag as it
\* was, exactly when config lacks the endpoint or one of the four contract
\* addresses; on an adapter that is not initialized every lifecycle operation
\* and executeBurn throws and starts nothing; and registerChain with such a
\* config throws and leaves the registry's chains as they were.
C29_InitializeNeedsCompleteConfig ==
    [][/\ outcome'.op = "adapter.initialize"
            => IF RequiredFields \subseteq outcome'.args[1]
               THEN outcome'.err = "ok" /\ initialized'
               ELSE outcome'.err # "ok" /\ initialized' = initialized
       /\ (~initialized /\ outcome'.op \in LifecycleOps \cup {"adapter.executeBurn"})
            => /\ outcome'.err = "Adapter not initialized. Call initialize() first."
               /\ UNCHANGED <<initialized, wait, registryVars, oracleVars, engineVars>>
       /\ (~initialized /\ outcome'.op \notin {"adapter.initialize"}) => ~initialized'
       /\ outcome'.op = "registerChain"
            => IF RequiredFields \subseteq outcome'.args[2]
               THEN /\ outcome'.err = "ok"
                    /\ \E i \in 1 .. Len(chains') : chains'[i].chainType = outcome'.id
               ELSE /\ outcome'.err # "ok"
                    /\ UNCHANGED <<chains, entries>>
      ]_vars

\* registerChain with a configuration that lacks the oracle address has
\* thrown the configuration error, and the registry has no entry for the
\* chain type
C29_Witness ==
    /\ outcome.op = "registerChain"
    /\ outcome.args[2] = ConfigFields \ {"oracle"}
    /\ outcome.err = "All contract addresses must be provided"
    /\ ~has(outcome.id)
    /\ ~initialized
(***************************************************************************)
(* C30.  The read-only queries.                                            *)
(***************************************************************************)
\* C30: getMatch, getPerformance and getTokenBalance never throw; they
\* return an absent result (null, balance 0) for a match or performance that
\* does not exist and for an address that holds nothing, and a present
\* result only for an entity that exists.
C30_QueriesNeverThrow ==
    [][outcome'.op \in {"adapter.getMatch", "adapter.getPerformance",
                        "adapter.getTokenBalance"}
         => /\ outcome'.err = "ok"
            /\ outcome'.op = "adapter.getMatch"
                 => (outcome'.args[1] = "data" => matches[outcome'.id].registeredAt # 0)
            /\ outcome'.op = "adapter.getPerformance"
                 => (outcome'.args[1] = "data"
                       => performances[<<outcome'.id, outcome'.player>>].verified)
            /\ outcome'.op = "adapter.getTokenBalance"
                 => outcome'.args[1] \in
                      {0} \cup { erc20_balances[a] : a \in DOMAIN erc20_balances }
      ]_vars
(***************************************************************************)
(* Participant addresses in recordPerformance and executeBurn of the three *)
(* adapters.  An address string is described by what the adapters' regular *)
(* expressions look at: whether it starts with 0x, how many characters     *)
(* follow, and whether all of them are hexadecimal digits.                 *)
(***************************************************************************)
EvmAddressDigits == 40

AptosAddressDigits == 64

\* waitForConfirmation(txHash, 5000) of the Aptos adapter, in sleeps of 2000 ms
AptosConfirmationSleeps == 3

Address(prefix, digits, hex) == [prefix |-> prefix, digits |-> digits, hex |-> hex]

\* an EVM address, an Aptos address, a short hexadecimal string, an empty
\* string, free text, and hexadecimal strings one digit too long
TestAddresses ==
    {Address(TRUE, EvmAddressDigits, TRUE), Address(TRUE, AptosAddressDigits, TRUE),
     Address(FALSE, 3, TRUE), Address(FALSE, 0, TRUE), Address(FALSE, 14, FALSE),
     Address(TRUE, EvmAddressDigits + 1, TRUE), Address(TRUE, AptosAddressDigits + 1, TRUE)}

\* AptosAdapter.formatAddress: prefix removed, padded with zeros, prefix added
formatAddress(address) ==
    Address(TRUE,
            IF address.digits < AptosAddressDigits THEN AptosAddressDigits ELSE address.digits,
            address.hex)

\* validateAddress(address) of the adapter of chainType
validateAddress(chainType, address) ==
    IF chainType = "aptos"
    THEN address.hex /\ address.digits >= 1 /\ address.digits <= AptosAddressDigits
    ELSE address.prefix /\ address.hex /\ address.digits = EvmAddressDigits

\* whether the adapter of chainType lets the player address of
\* recordPerformance / executeBurn through to its SDK call
passesAddressCheck(chainType, address) ==
    IF chainType = "aptos" THEN validateAddress(chainType, formatAddress(address)) ELSE TRUE

\* the outcome of an adapter operation on a player address: the address, and
\* whether the call to the SDK (or the Stylus bridge) was made
AddressOutcome(op, chainType, address, err, submitted) ==
    [Outcome(op, chainType, "-", "-", err) EXCEPT !.args = <<address, submitted>>]

\* recordPerformance(params) of the adapter of chainType
AdapterRecordPerformance(chainType, address, txHash, sdkOk) ==
    LET op == "adapter.recordPerformance" IN
    /\ wait.pc = "idle"
    /\ IF ensureInitialized # "ok"
       THEN /\ outcome' = AddressOutcome(op, chainType, address, ensureInitialized, FALSE)
            /\ UNCHANGED wait
       ELSE IF chainType = "arbitrum"
            THEN /\ outcome' = AddressOutcome(op, chainType, address, "ok", FALSE)
                 /\ UNCHANGED wait
            ELSE IF ~passesAddressCheck(chainType, address)
                 THEN /\ outcome' = AddressOutcome(op, chainType, address,
                                                   "Invalid Aptos address format", FALSE)
                      /\ UNCHANGED wait
                 ELSE IF ~sdkOk
                      THEN /\ outcome' = AddressOutcome(op, chainType, address, "failed", TRUE)
                           /\ UNCHANGED wait
                      ELSE /\ outcome' = AddressOutcome(op, chainType, address, "ok", TRUE)
                           /\ wait' = [pc |-> "loop", txHash |-> txHash,
                                       startTime |-> clock,
                                       timeoutMs |-> IF chainType = "aptos"
                                                     THEN AptosConfirmationSleeps
                                                     ELSE ConfirmationSleeps]
    /\ UNCHANGED <<initialized, receipts, clock>>
    /\ AdapterUnchanged

\* executeBurn(params) of the adapter of chainType
AdapterExecuteBurn(chainType, address, sdkOk) ==
    LET op == "adapter.executeBurn" IN
    /\ outcome' =
         IF ensureInitialized # "ok"
         THEN AddressOutcome(op, chainType, address, ensureInitialized, FALSE)
         ELSE IF ~passesAddressCheck(chainType, address)
              THEN AddressOutcome(op, chainType, address, "Invalid Aptos address format", FALSE)
              ELSE AddressOutcome(op, chainType, address, IF sdkOk THEN "ok" ELSE "failed", TRUE)
    /\ UNCHANGED adapterVars
    /\ AdapterUnchanged

\* adapters of the three chains, initialized or not, record performances and
\* execute burns for well-formed and malformed addresses
AddressNext ==
    \/ Initialize(ConfigFields)
    \/ \E chainType \in ChainTypes, address \in TestAddresses, sdkOk \in BOOLEAN :
         AdapterRecordPerformance(chainType, address, "0xa", sdkOk)
    \/ \E chainType \in ChainTypes, address \in TestAddresses, sdkOk \in BOOLEAN :
         AdapterExecuteBurn(chainType, address, sdkOk)
    \/ WaitLoop
    \/ WaitPolled(TRUE)
    \/ WaitSleep
    \/ Mine("0xa", "success")

SpecAddress == AdapterSpecInit /\ [][AddressNext]_vars

(***************************************************************************)
(* C31.  Malformed participant addresses.                                  *)
(***************************************************************************)
\* C31: recordPerformance and executeBurn of every adapter, called with an
\* address that fails the adapter's validateAddress, end with an
\* invalid-address error and make no call to the SDK.
C31_MalformedAddressRejected ==
    (/\ outcome.op \in {"adapter.recordPerformance", "adapter.executeBurn"}
     /\ initialized
     /\ ~validateAddress(outcome.caller, outcome.args[1]))
      => /\ ~outcome.args[2]
         /\ outcome.err = "Invalid Aptos address format"
(***************************************************************************)
(* recordCricketPerformance of the three adapters: the reward tier chosen  *)
(* from the cricket figures.                                               *)
(***************************************************************************)
CricketParams ==
    [runs : {0, 49, 50, 99, 100}, wickets : {0, 2, 3, 4, 5}, maidenOvers : {0, 2, 3}]

\* OpBNBAdapter.determineCricketTier, AptosAdapter.determineCricketTier
determineCricketTier(params) ==
    IF params.runs >= 100 THEN "GAYLE_STORM"
    ELSE IF params.runs >= 50 THEN "NIFTY_FIFTY"
    ELSE IF params.wickets >= 5 THEN "FIVE_WICKET_HAUL"
    ELSE IF params.wickets >= 3 THEN "HAT_TRICK"
    ELSE IF params.maidenOvers >= 3 THEN "MAIDEN_MASTER"
    ELSE "ALL_ROUNDER"

\* ArbitrumAdapter.recordCricketPerformance: let tier = ALL_ROUNDER, then one
\* assignment after the other
arbitrumCricketTier(params) ==
    LET t0 == "ALL_ROUNDER"
        t1 == IF params.runs >= 50 THEN "NIFTY_FIFTY" ELSE t0
        t2 == IF params.runs >= 100 THEN "GAYLE_STORM" ELSE t1
        t3 == IF params.wickets >= 3 THEN "HAT_TRICK" ELSE t2
        t4 == IF params.wickets >= 5 THEN "FIVE_WICKET_HAUL" ELSE t3
        t5 == IF params.maidenOvers >= 3 THEN "MAIDEN_MASTER" ELSE t4
    IN  t5

\* the tier the adapter of chainType passes on to recordPerformance
cricketTier(chainType, params) ==
    IF chainType = "arbitrum" THEN arbitrumCricketTier(params)
    ELSE determineCricketTier(params)

\* recordCricketPerformance(params) of the adapter of chainType, for a
\* well-formed player address: the tier is computed and recordPerformance
\* runs with it
AdapterRecordCricketPerformance(chainType, params, txHash, sdkOk) ==
    LET op == "adapter.recordCricketPerformance"
        result(err) == [Outcome(op, chainType, "-", "-", err)
                          EXCEPT !.args = <<params, cricketTier(chainType, params)>>]
    IN
    /\ wait.pc = "idle"
    /\ IF ensureInitialized # "ok"
       THEN /\ outcome' = Outcome(op, chainType, "-", "-", ensureInitialized)
            /\ UNCHANGED wait
       ELSE IF chainType = "arbitrum"
            THEN /\ outcome' = result("ok")
                 /\ UNCHANGED wait
            ELSE IF ~sdkOk
                 THEN /\ outcome' = result("failed")
                      /\ UNCHANGED wait
                 ELSE /\ outcome' = result("ok")
                      /\ wait' = [pc |-> "loop", txHash |-> txHash, startTime |-> clock,
                                  timeoutMs |-> IF chainType = "aptos"
                                                THEN AptosConfirmationSleeps
                                                ELSE ConfirmationSleeps]
    /\ UNCHANGED <<initialized, receipts, clock>>
    /\ AdapterUnchanged

CricketNext ==
    \/ Initialize(ConfigFields)
    \/ \E chainType \in ChainTypes, params \in CricketParams, sdkOk \in BOOLEAN :
         AdapterRecordCricketPerformance(chainType, params, "0xa", sdkOk)
    \/ WaitLoop
    \/ WaitPolled(TRUE)
    \/ WaitSleep
    \/ Mine("0xa", "success")

SpecCricket == AdapterSpecInit /\ [][CricketNext]_vars

(***************************************************************************)
(* C32.  Cricket tier selection.                                           *)
(***************************************************************************)
\* C32: recordCricketPerformance of every adapter selects the tier by the
\* ordered rules runs >= 100, runs >= 50, wickets >= 5, wickets >= 3,
\* maidenOvers >= 3, else ALL_ROUNDER, the first matching rule winning, so
\* that the three adapters select the same tier for the same figures.
C32_CricketTierOrderedRules ==
    (outcome.op = "adapter.recordCricketPerformance" /\ outcome.args # << >>)
      => LET params == outcome.args[1] IN
         /\ outcome.args[2] =
              CASE params.runs >= 100 -> "GAYLE_STORM"
                [] params.runs \in 50 .. 99 -> "NIFTY_FIFTY"
                [] params.runs < 50 /\ params.wickets >= 5 -> "FIVE_WICKET_HAUL"
                [] params.runs < 50 /\ params.wickets \in 3 .. 4 -> "HAT_TRICK"
                [] params.runs < 50 /\ params.wickets < 3 /\ params.maidenOvers >= 3
                     -> "MAIDEN_MASTER"
                [] OTHER -> "ALL_ROUNDER"
         /\ \A chainType \in ChainTypes : cricketTier(chainType, params) = outcome.args[2]
(***************************************************************************)
(* C33.  Termination of waitForConfirmation.                               *)
(***************************************************************************)
\* calls of waitForConfirmation whose deadline lies within the clock's range;
\* the clock is read between the calls, and during a call it advances by the
\* sleeps
TerminationNext ==
    \/ \E txHash \in TxHashes, timeoutMs \in 0 .. 2 :
         /\ clock + timeoutMs <= MaxClock
         /\ WaitForConfirmation(txHash, timeoutMs)
    \/ WaitLoop
    \/ \E rpcOk \in BOOLEAN : WaitPolled(rpcOk)
    \/ WaitSleep
    \/ wait.pc = "idle" /\ Tick
    \/ \E txHash \in TxHashes, status \in {"success", "reverted"} : Mine(txHash, status)

SpecTermination == RegistrySpecInit /\ [][TerminationNext]_vars

\* the loop test is synchronous code, every checkTransactionStatus call
\* returns, and the timer of every sleep fires; nothing says that a
\* transaction is ever mined
SpecTerminationFair ==
    /\ SpecTermination
    /\ WF_vars(WaitLoop)
    /\ WF_vars(\E rpcOk \in BOOLEAN : WaitPolled(rpcOk))
    /\ WF_vars(WaitSleep)

\* C33: every call of waitForConfirmation returns, provided each status check
\* returns: a status check is made only while the deadline has not passed,
\* each check is followed either by the return of a 'confirmed' or 'failed'
\* result or by a sleep during which time passes, so there are at most
\* timeoutMs / 2000 (rounded up) checks, and no check follows one that
\* found 'confirmed' or 'failed'.
C33_WaitTerminates ==
    /\ [][/\ (wait.pc = "loop" /\ wait'.pc = "poll")
               => clock - wait.startTime < wait.timeoutMs
          /\ (wait.pc = "poll" /\ wait' # wait)
               => \/ wait'.pc = "sleep" /\ outcome' = outcome
                  \/ wait'.pc = "idle" /\ outcome'.err \in {"confirmed", "failed"}
          /\ (wait.pc = "sleep" /\ wait' # wait)
               => wait'.pc = "loop" /\ clock' > clock
         ]_vars
    /\ (wait.pc # "idle") ~> (wait.pc = "idle")

\* a call with a deadline of two sleeps has returned 'pending' after its
\* polls, for a transaction that was never mined
C33_Witness ==
    /\ outcome.op = "waitForConfirmation" /\ outcome.err = "pending"
    /\ outcome.args[1] = 2
    /\ receipts[outcome.id] = "none"
    /\ wait.pc = "idle"
    /\ clock >= 2
(***************************************************************************)
(* C34.  Health flag and failure count.                                    *)
(***************************************************************************)
\* C34: every registered chain has isHealthy = (failureCount < maxFailures),
\* for the threshold in force, after any sequence of registerChain,
\* checkChainHealth and configure.
C34_FlagAgreesWithCount ==
    \A i \in 1 .. Len(chains) :
        LET status == entries[chains[i].entry] IN
        status.isHealthy = (status.failureCount < maxFailuresInForce)
(***************************************************************************)
(* C35.  getAdapter with failover enabled.                                 *)
(***************************************************************************)
\* C35: while enableFailover is set, a call of getAdapter either throws,
\* returning nothing, or returns the adapter of a registered chain that is
\* marked healthy at that moment.
C35_NoUnhealthyAdapterWithFailover ==
    [][(outcome'.op = "getAdapter" /\ config.enableFailover)
       => LET returned == outcome'.args[1] IN
          \/ outcome'.err # "ok" /\ returned = 0
          \/ /\ outcome'.err = "ok"
             /\ \E i \in 1 .. Len(chains') : chains'[i].entry = returned
             /\ entries'[returned].isHealthy
      ]_vars

\* every chain is marked unhealthy, failover is enabled, and getAdapter of a
\* registered chain has thrown that there is no healthy chain
C35_Witness ==
    /\ outcome.op = "getAdapter" /\ outcome.id = "opbnb"
    /\ outcome.err = "No healthy chains available"
    /\ config.enableFailover
    /\ Len(chains) = 3
    /\ \A i \in 1 .. Len(chains) : ~entries[chains[i].entry].isHealthy
(***************************************************************************)
(* C36.  Burn engine accounting.                                           *)
(***************************************************************************)
RECURSIVE SumOfPlayers(_, _)
\* the sum of getPlayerBurned ("burn") or getPlayerRewards ("reward") over
\* the players in S
SumOfPlayers(S, f) ==
    IF S = {} THEN 0
    ELSE LET p == CHOOSE x \in S : TRUE
         IN (IF f = "reward" THEN PlayerRewards(p) ELSE PlayerBurned(p))
              + SumOfPlayers(S \ {p}, f)

\* C36: in every reachable state the engine's total burned amount is the sum
\* of burnAmount over the executed burn records and the sum of the players'
\* burned totals, its total of rewards is the sum of rewardAmount over the
\* records and the sum of the players' reward totals; and no step decreases
\* either total.
C36_EngineTotalsAreSums ==
    /\ [](/\ TotalBurned = SumOfRecords(BurnKeys, "burn")
          /\ TotalBurned = SumOfPlayers(BurnPlayers, "burn")
          /\ TotalRewards = SumOfRecords(BurnKeys, "reward")
          /\ TotalRewards = SumOfPlayers(BurnPlayers, "reward"))
    /\ [][TotalBurned' >= TotalBurned /\ TotalRewards' >= TotalRewards]_vars

\* burns of two players, one of them with two burns, have been executed and
\* something was burned
C36_Witness ==
    /\ \A k \in BurnKeys : BurnExecuted(k)
    /\ \A p \in BurnPlayers : PlayerBurned(p) > 0
    /\ TotalBurned > PlayerBurned("owner")
    /\ TotalRewards > TotalBurned
(***************************************************************************)
(* C37.  The tier store of RewardTiers and the one of DeflatinaryBurn.     *)
(***************************************************************************)
\* C37: for every tier that RewardTiers.getTierMultiplier answers for,
\* DeflatinaryBurn.calculateReward works with the multiplier and the base
\* reward that getTierMultiplier returns.
C37_TierStoresAgree ==
    IsSol =>
      \A t \in TierIds :
          (t < totalTiers /\ tiers[t].isActive)
            => /\ <<burnMultipliers[t], baseRewards[t]>> = getTierMultiplier(t)
               /\ \A e \in {1, 85, 100} :
                    calculateReward(t, e) =
                      (((getTierMultiplier(t)[2] * e) \div 100) * getTierMultiplier(t)[1]) \div 10
(***************************************************************************)
(* C38.  The burn record and the stored performance record.                *)
(***************************************************************************)
\* the reward tier and effort score of the stored performance record of key
\* k, as a set (empty when there is no record)
StoredPerformance(k) ==
    IF IsSol
    THEN IF performances[k].verified
         THEN {<<performances[k].tier, performances[k].effortScore>>} ELSE {}
    ELSE IF TableContains(performance_store, k)
         THEN {<<performance_store[k].reward_tier, performance_store[k].effort_score>>}
         ELSE {}

\* C38: a burn that executes writes a record whose tier and effortScore are
\* the reward tier and effort score of the performance record stored for
\* the same (matchId, participant) at that moment.
C38_BurnRecordMatchesPerformance ==
    [][\A k \in BurnKeys :
         (BurnTxOn(k) /\ outcome'.err = "ok" /\ ~BurnExecuted(k))
           => \A r \in BurnRecordView(k)' : <<r.tier, r.effort>> \in StoredPerformance(k)
      ]_vars
(***************************************************************************)
(* C39.  The health-monitoring timer.                                      *)
(***************************************************************************)
\* the registry's life cycle: module start and stop, reconfiguration with
\* and without a new interval, monitoring rounds started by the timer
TimerNext ==
    \/ RegisterChain("opbnb", ConfigFields)
    \/ OnModuleInit
    \/ \E interval \in {0, 30000} : Configure([healthCheckInterval |-> interval])
    \/ Configure([maxFailures |-> 2])
    \/ StopHealthMonitoring("stopHealthMonitoring")
    \/ OnModuleDestroy
    \/ \E p \in ProbeIds : RoundStart(p)
    \/ \E p \in ProbeIds : RoundProbe(p)
    \/ \E p \in ProbeIds : RoundEnd(p)
    \/ \E p \in ProbeIds, isHealthy \in {"true", "false"} :
         CheckChainHealthComplete(p, isHealthy)

SpecTimer == RegistrySpecInit /\ [][TimerNext]_vars

\* C39: at most one health-check timer is set at any time; stopHealthMonitoring
\* and onModuleDestroy leave none; monitoring that is stopped is started again
\* only by onModuleInit, not by configure; and a monitoring round is started
\* only while monitoring is on.
C39_OneTimerNoneAfterStop ==
    /\ [](/\ Cardinality(timers) <= 1
          /\ timers = IF healthCheckInterval = 0 THEN {} ELSE {healthCheckInterval})
    /\ [][/\ outcome'.op \in {"stopHealthMonitoring", "onModuleDestroy"}
               => healthCheckInterval' = 0 /\ timers' = {}
          /\ (healthCheckInterval = 0 /\ healthCheckInterval' # 0)
               => outcome'.op = "onModuleInit"
          /\ \A p \in ProbeIds :
               (rounds[p] = 0 /\ rounds'[p] # 0) => healthCheckInterval # 0
         ]_vars

\* the module was destroyed while a monitoring round was in progress: no
\* timer is left, the round goes on
C39_Witness ==
    /\ outcome.op = "onModuleDestroy"
    /\ healthCheckInterval = 0 /\ timers = {}
    /\ \E p \in ProbeIds : rounds[p] > 0 /\ probes[p].pc = "await"
(***************************************************************************)
(* C40.  A probe that completes after unregisterChain or a re-registration *)
(* of its chain type.                                                      *)
(***************************************************************************)
\* C40: the result of a health probe is applied to the entry registered for
\* the chain type when the probe completes: if the chain type is not
\* registered then, no chain.unhealthy or chain.recovered is emitted and no
\* registered entry changes; if it is registered, it is the registered
\* entry that counts the failure or is reset by the success.
C40_ProbeAppliesToRegisteredEntry ==
    [][\A p \in ProbeIds :
         (probes[p].pc = "await" /\ probes'[p].pc = "idle")
           => LET chainType == probes[p].chainType
                  current == get(chainType)
              IN IF ~has(chainType)
                 THEN /\ emitted' = << >>
                      /\ \A i \in 1 .. Len(chains) :
                           entries'[chains[i].entry] = entries[chains[i].entry]
                 ELSE IF outcome'.err = "true"
                      THEN /\ entries'[current].failureCount = 0
                           /\ entries'[current].isHealthy
                      ELSE entries'[current].failureCount = entries[current].failureCount + 1
      ]_vars
====
